---- MODULE Spec2Model ----
(***************************************************************************)
(* Verification model of the BLE WiFi provisioning stack:                  *)
(*   BleTransport.handleNotification  (chunk reassembly, "framer")         *)
(*   DeviceProtocol                   (single-flight command channel)      *)
(*   ConnectionPoller                 (status polling)                     *)
(*   ProvisioningManager              (the wizard's orchestrator)          *)
(* Each layer is translated from src/src/services/*.ts.  One JavaScript    *)
(* task (a public call, a timer callback, a notification callback, a       *)
(* promise settlement together with the continuations it schedules) is     *)
(* one action.                                                             *)
(***************************************************************************)
EXTENDS Integers, Sequences, FiniteSets, TLC

VARIABLES
  transport,   \* BleTransport: responseBuffer, statusBuffer
  wire,        \* the message the device is sending, and how much of it was notified
  delivered,   \* messages emitted by the transport on 'response' / 'status'
  proto,       \* DeviceProtocol fields
  writes,      \* outstanding transport.writeCommand promises, with the captured nonce
  inflight,    \* commands the device received and has not answered yet
  calls,       \* one record per accepted sendCommand promise
  poller,      \* ConnectionPoller fields
  hist,        \* what the current polling session has observed and emitted
  audit,       \* whether the records of settled calls are kept (history for the channel's properties)
  emitted,     \* events emitted and continuations invoked by the last task, in order
  timers,      \* the runtime's timers created by the poller that are still armed
  ble,         \* BleTransport: connection state, device, subscriptions, operations under way
  mgr,         \* ProvisioningManager fields
  factory      \* serviceFactory: the module-level singletons and the stored config

vars == <<transport, wire, delivered, proto, writes, inflight, calls, poller, hist, audit, emitted,
          timers, ble, mgr, factory>>

NULL == "null"

(***************************************************************************)
(* Text.  A text is a sequence of ASCII codes.                             *)
(***************************************************************************)
Ch == [lbrace |-> 123, rbrace |-> 125, quote |-> 34, colon |-> 58,
       a |-> 97, one |-> 49, space |-> 32, nl |-> 10]

\* String.prototype.trimEnd: the ASCII white space and line terminators
WhiteSpace == {9, 10, 11, 12, 13, 32}

RECURSIVE trimEnd(_)
trimEnd(s) ==
  IF s = <<>> THEN s
  ELSE IF s[Len(s)] \in WhiteSpace THEN trimEnd(SubSeq(s, 1, Len(s) - 1))
  ELSE s

endsWithBrace(s) == s # <<>> /\ s[Len(s)] = Ch.rbrace

(***************************************************************************)
(* utils/base64: base64 over the UTF-8 bytes of the string.  The encoded  *)
(* form is a sequence of indices into BASE64_CHARS, Pad standing for '='.  *)
(* Texts are ASCII here, for which encodeUTF8 and decodeUTF8 map a         *)
(* character to the byte of the same code.                                 *)
(***************************************************************************)
Pad == 64

RECURSIVE stringToBase64(_)
stringToBase64(s) ==
  IF s = <<>> THEN <<>>
  ELSE IF Len(s) = 1 THEN
    << s[1] \div 4, (s[1] % 4) * 16, Pad, Pad >>
  ELSE IF Len(s) = 2 THEN
    << s[1] \div 4, (s[1] % 4) * 16 + (s[2] \div 16), (s[2] % 16) * 4, Pad >>
  ELSE
    << s[1] \div 4, (s[1] % 4) * 16 + (s[2] \div 16),
       (s[2] % 16) * 4 + (s[3] \div 64), s[3] % 64 >>
      \o stringToBase64(SubSeq(s, 4, Len(s)))

RECURSIVE base64ToString(_)
base64ToString(b) ==
  IF Len(b) < 4 THEN <<>>
  ELSE
    LET b0 == b[1] * 4 + (b[2] \div 16)
        b1 == (b[2] % 16) * 16 + (b[3] \div 4)
        b2 == (b[3] % 4) * 64 + b[4]
        rest == base64ToString(SubSeq(b, 5, Len(b)))
    IN IF b[3] = Pad THEN << b0 >> \o rest
       ELSE IF b[4] = Pad THEN << b0, b1 >> \o rest
       ELSE << b0, b1, b2 >> \o rest

(***************************************************************************)
(* JSON texts the device sends.  IsJsonValue is a recursive-descent        *)
(* recogniser of the JSON subset the alphabet can spell: objects with      *)
(* string keys, strings without escapes, the digit 1, and white space.     *)
(***************************************************************************)
RECURSIVE skipWs(_, _)
skipWs(s, i) == IF i <= Len(s) /\ s[i] \in WhiteSpace THEN skipWs(s, i + 1) ELSE i

\* index after the string literal starting at i, or 0
RECURSIVE endOfString(_, _)
endOfString(s, i) ==
  IF i > Len(s) THEN 0
  ELSE IF s[i] = Ch.quote THEN i + 1
  ELSE endOfString(s, i + 1)

parseString(s, i) ==
  IF i <= Len(s) /\ s[i] = Ch.quote THEN endOfString(s, i + 1) ELSE 0

\* index after the value starting at i (leading white space allowed), or 0
RECURSIVE parseValue(_, _)
RECURSIVE parseMembers(_, _)
parseMembers(s, i) ==
  LET k == parseString(s, skipWs(s, i))
      c == IF k = 0 THEN 0 ELSE skipWs(s, k)
      v == IF c = 0 \/ c > Len(s) \/ s[c] # Ch.colon THEN 0 ELSE parseValue(s, c + 1)
      e == IF v = 0 THEN 0 ELSE skipWs(s, v)
  IN IF e = 0 \/ e > Len(s) THEN 0
     ELSE IF s[e] = Ch.rbrace THEN e + 1
     ELSE 0
parseValue(s, i) ==
  LET j == skipWs(s, i)
  IN IF j > Len(s) THEN 0
     ELSE IF s[j] = Ch.one THEN j + 1
     ELSE IF s[j] = Ch.quote THEN parseString(s, j)
     ELSE IF s[j] = Ch.lbrace THEN
       LET m == skipWs(s, j + 1)
       IN IF m <= Len(s) /\ s[m] = Ch.rbrace THEN m + 1 ELSE parseMembers(s, j + 1)
     ELSE 0

IsValidJson(s) ==
  LET e == parseValue(s, 1) IN e # 0 /\ skipWs(s, e) = Len(s) + 1

Key == << Ch.quote, Ch.a, Ch.quote, Ch.colon >>
Obj(v) == << Ch.lbrace >> \o Key \o v \o << Ch.rbrace >>

\* the messages a device may send on a notification characteristic
WireTexts ==
  { << Ch.lbrace, Ch.rbrace >>,                         \* {}
    Obj(<< Ch.one >>),                                  \* {"a":1}
    Obj(<< Ch.lbrace, Ch.rbrace >>),                    \* {"a":{}}
    Obj(<< Ch.quote, Ch.rbrace, Ch.quote >>),           \* {"a":"}"}
    Obj(<< Ch.quote, Ch.a, Ch.quote >>),                \* {"a":"a"}
    Obj(<< Ch.one, Ch.space >>),                        \* {"a":1 }
    Obj(<< Ch.one >>) \o << Ch.nl >> }                  \* {"a":1}\n

Channels == {"response", "status"}

(***************************************************************************)
(* BleTransport.handleNotification: decode the chunk, append it to the     *)
(* buffer of its characteristic, and emit the buffer as one message when   *)
(* its right-trimmed content ends with a closing brace.                    *)
(* The result is [buffers, out]: out is the emitted message, or <<>>.      *)
(***************************************************************************)
handleNotification(t, type, base64Value) ==
  LET chunk == base64ToString(base64Value)
  IN IF type = "response" THEN
       LET buf == t.responseBuffer \o chunk
       IN IF endsWithBrace(trimEnd(buf))
          THEN [t |-> [t EXCEPT !.responseBuffer = <<>>], out |-> << buf >>]
          ELSE [t |-> [t EXCEPT !.responseBuffer = buf], out |-> <<>>]
     ELSE
       LET buf == t.statusBuffer \o chunk
       IN IF endsWithBrace(trimEnd(buf))
          THEN [t |-> [t EXCEPT !.statusBuffer = <<>>], out |-> << buf >>]
          ELSE [t |-> [t EXCEPT !.statusBuffer = buf], out |-> <<>>]

(***************************************************************************)
(* Wire values of the command channel.                                     *)
(***************************************************************************)
\* a WifiStatus as it comes out of JSON.parse; NULL is an absent field
NoData == [state |-> NULL, wifi_state |-> NULL, ssid |-> NULL, ip |-> NULL,
           rssi |-> NULL, quality |-> NULL, networks |-> << >>]

\* the networks of a scan reply; an absent list and an empty one are both << >>
NetA == [ssid |-> "A", rssi |-> -70]
NetB == [ssid |-> "B", rssi |-> -40]
NetC == [ssid |-> "C", rssi |-> -70]

Parsed(status, hasData, data, error, message) ==
  [valid |-> TRUE, status |-> status, hasData |-> hasData, data |-> data,
   error |-> error, message |-> message]

TextOkNoData      == "{\"status\":\"ok\"}"
TextDisconnected  == "{\"status\":\"ok\",\"data\":{\"state\":\"disconnected\"}}"
TextConnecting    == "{\"status\":\"ok\",\"data\":{\"state\":\"connecting\",\"ssid\":\"Net\"}}"
TextConnected     == "{\"status\":\"success\",\"data\":{\"state\":\"connected\",\"ssid\":\"Net\",\"ip\":\"10.0.0.2\",\"rssi\":-40,\"quality\":80}}"
TextWifiState     == "{\"status\":\"ok\",\"data\":{\"wifi_state\":\"connecting\"}}"
TextError         == "{\"status\":\"error\",\"error\":\"Network not found\"}"
TextErrorMessage  == "{\"status\":\"error\",\"message\":\"Timeout reached\"}"
TextTruncated     == "{\"status\":\"ok\",\"data\":{\"state\":\"connected\"}"
TextScanTwo       == "{\"status\":\"ok\",\"data\":{\"networks\":[{\"ssid\":\"A\",\"rssi\":-70},{\"ssid\":\"B\",\"rssi\":-40}]}}"
TextScanThree     == "{\"status\":\"ok\",\"data\":{\"networks\":[{\"ssid\":\"C\",\"rssi\":-70},{\"ssid\":\"B\",\"rssi\":-40},{\"ssid\":\"A\",\"rssi\":-70}]}}"

ResponseTexts ==
  { TextOkNoData, TextDisconnected, TextConnecting, TextConnected, TextWifiState,
    TextError, TextErrorMessage, TextTruncated, TextScanTwo, TextScanThree }

\* what the device answers to a command: a status to get_status, a list of
\* networks to scan, a bare acknowledgement to the others, an error, or a
\* text the framer cut short
ReplyTexts(cmd) ==
  IF cmd = "get_status"
  THEN {TextDisconnected, TextConnecting, TextConnected, TextWifiState, TextError, TextTruncated}
  ELSE IF cmd = "scan"
  THEN {TextScanTwo, TextScanThree, TextOkNoData, TextError, TextTruncated}
  ELSE {TextOkNoData, TextError, TextErrorMessage, TextTruncated}

\* the wizard is explored with one kind of error reply and one list of networks
WizardTexts ==
  { TextOkNoData, TextDisconnected, TextConnecting, TextConnected, TextError, TextScanThree }

\* JSON.parse on the texts above
JSONParse(t) ==
  CASE t = TextOkNoData     -> Parsed("ok", FALSE, NoData, NULL, NULL)
    [] t = TextDisconnected -> Parsed("ok", TRUE, [NoData EXCEPT !.state = "disconnected"], NULL, NULL)
    [] t = TextConnecting   -> Parsed("ok", TRUE, [NoData EXCEPT !.state = "connecting", !.ssid = "Net"], NULL, NULL)
    [] t = TextConnected    -> Parsed("success", TRUE,
                                 [NoData EXCEPT !.state = "connected", !.ssid = "Net",
                                                !.ip = "10.0.0.2", !.rssi = "-40",
                                                !.quality = "80"], NULL, NULL)
    [] t = TextWifiState    -> Parsed("ok", TRUE, [NoData EXCEPT !.wifi_state = "connecting"], NULL, NULL)
    [] t = TextError        -> Parsed("error", FALSE, NoData, "Network not found", NULL)
    [] t = TextErrorMessage -> Parsed("error", FALSE, NoData, NULL, "Timeout reached")
    [] t = TextScanTwo      -> Parsed("ok", TRUE, [NoData EXCEPT !.networks = << NetA, NetB >>], NULL, NULL)
    [] t = TextScanThree    -> Parsed("ok", TRUE, [NoData EXCEPT !.networks = << NetC, NetB, NetA >>], NULL, NULL)
    [] OTHER                -> [valid |-> FALSE, status |-> NULL, hasData |-> FALSE, data |-> NoData,
                                error |-> NULL, message |-> NULL]

NoError == [kind |-> "none", msg |-> ""]
Err(kind, msg) == [kind |-> kind, msg |-> msg]

\* the typed helpers a caller uses: getStatus() and scan()
Helpers == { [cmd |-> "get_status", timeoutMs |-> << >>],
             [cmd |-> "scan", timeoutMs |-> << 15000 >>] }

DEFAULT_COMMAND_TIMEOUT_MS == 8000
COMMAND_TIMEOUTS == [c \in {"scan"} |-> 15000]

(***************************************************************************)
(* The world a task runs in.  Operators below take a world and return the  *)
(* world after the call, so that a handler and everything it calls         *)
(* synchronously (listeners, promise continuations) make up one action.    *)
(* trigger names the command whose write, timer or reply started the task. *)
(* micro is the task's microtask queue: the promise reactions scheduled so  *)
(* far, which run in order once the synchronous code has returned.         *)
(***************************************************************************)
World(trigger) ==
  [proto |-> proto, writes |-> writes, inflight |-> inflight, calls |-> calls,
   poller |-> poller, hist |-> hist, audit |-> audit, emitted |-> << >>,
   timers |-> timers, ble |-> ble, mgr |-> mgr, micro |-> << >>, trigger |-> trigger]

\* schedule the code awaiting a promise that settles with result
Defer(w, cont, result) ==
  [w EXCEPT !.micro = Append(@, [cont |-> cont, result |-> result])]

chanSnap(w) ==
  [busy |-> w.proto.busy, slot |-> w.proto.pendingResolve,
   timer |-> w.proto.timeoutTimer, nonce |-> w.proto.commandNonce]

pollSnap(w) ==
  [polling |-> w.poller.polling, pollInterval |-> w.poller.pollInterval,
   timeoutTimer |-> w.poller.timeoutTimer]

\* one entry of the task's log, with the state the listeners see
Entry(w, ev, id, arg, status) ==
  [ev |-> ev, id |-> id, arg |-> arg, status |-> status,
   chan |-> chanSnap(w), poll |-> pollSnap(w), step |-> w.mgr.step]

Log(w, ev, id, arg, status) ==
  [w EXCEPT !.emitted = Append(@, Entry(w, ev, id, arg, status))]

\* TypedEventEmitter.emit: the listeners run synchronously; none is left
\* after removeAllListeners
emit(w, listening, ev, arg, status) ==
  IF listening THEN Log(w, ev, 0, arg, status) ELSE w

(***************************************************************************)
(* ProvisioningManager: its emitter, setStep / setError / clearError, and  *)
(* the listeners it registers on the poller in subscribeToServices.        *)
(***************************************************************************)
Steps == {"welcome", "connect", "networks", "credentials", "connecting", "success", "manage"}

mgrEmit(w, ev, arg, status) == emit(w, w.mgr.listening, ev, arg, status)

setStep(w, step) ==
  IF w.mgr.step = step THEN w
  ELSE mgrEmit([w EXCEPT !.mgr.step = step], "stepChanged", step, NoData)

setError(w, message) == mgrEmit(w, "provisioningError", message, NoData)

clearError(w) == mgrEmit(w, "provisioningError", NULL, NoData)

\* a?.name, a?.id of the transport's connectedDevice
deviceName(info) == IF info = << >> THEN NULL ELSE info[1].name
deviceId(info) == IF info = << >> THEN NULL ELSE info[1].id

\* the ProvisioningResult the 'connectionSucceeded' listener builds
ProvisioningResult(w, status) ==
  [success |-> TRUE, ssid |-> status.ssid, ip |-> status.ip,
   deviceName |-> deviceName(w.ble.connectedDeviceInfo),
   deviceId |-> deviceId(w.ble.connectedDeviceInfo)]

\* variant: the result is built of what the manager knows of the selection
onPollerEventResultOfSelection(w, ev, status) ==
  IF ~w.mgr.subscribed THEN w
  ELSE CASE ev = "connectionSucceeded" ->
              mgrEmit(setStep(w, "success"), "provisioningComplete", "",
                      [ProvisioningResult(w, status) EXCEPT
                         !.ssid = IF w.mgr.selectedNetwork = << >> THEN NULL
                                  ELSE w.mgr.selectedNetwork[1].ssid])
         [] ev = "connectionFailed" ->
              setError(w, "WiFi connection failed. You can retry or go back.")
         [] ev = "connectionTimedOut" ->
              setError(w, "WiFi connection timed out. You can retry or go back.")
         [] ev = "wifiStateChanged" ->
              mgrEmit(w, "wifiStatusUpdated", "", status)
         [] OTHER -> w

\* variant: a failure or a timeout sends the wizard back to the credentials
onPollerEventBackToCredentials(w, ev, status) ==
  IF ~w.mgr.subscribed THEN w
  ELSE CASE ev = "connectionSucceeded" ->
              mgrEmit(setStep(w, "success"), "provisioningComplete", "",
                      ProvisioningResult(w, status))
         [] ev = "connectionFailed" ->
              setStep(setError(w, "WiFi connection failed. You can retry or go back."),
                      "credentials")
         [] ev = "connectionTimedOut" ->
              setStep(setError(w, "WiFi connection timed out. You can retry or go back."),
                      "credentials")
         [] ev = "wifiStateChanged" ->
              mgrEmit(w, "wifiStatusUpdated", "", status)
         [] OTHER -> w

\* the poller's events as the manager hears them
onPollerEvent(w, ev, status) ==
  IF ~w.mgr.subscribed THEN w
  ELSE CASE ev = "connectionSucceeded" ->
              mgrEmit(setStep(w, "success"), "provisioningComplete", "",
                      ProvisioningResult(w, status))
         [] ev = "connectionFailed" ->
              setError(w, "WiFi connection failed. You can retry or go back.")
         [] ev = "connectionTimedOut" ->
              setError(w, "WiFi connection timed out. You can retry or go back.")
         [] ev = "wifiStateChanged" ->
              mgrEmit(w, "wifiStatusUpdated", "", status)
         [] OTHER -> w

(***************************************************************************)
(* ConnectionPoller, the part that runs when a status query settles.       *)
(***************************************************************************)
\* a ?? b
Coalesce(a, b) == IF a # NULL THEN a ELSE b

\* a count kept in the history, which stops at 2
Bump(n) == IF n < 2 THEN n + 1 ELSE n

\* setInterval / setTimeout / clearInterval / clearTimeout on the poller's two
\* handles.  timers.interval and timers.timeout tell whether the timer a
\* handle was last given for is armed; a timer whose handle was overwritten
\* or dropped while it was armed is counted as leaked.
pollerSetInterval(w) ==
  [w EXCEPT !.timers.leakedInterval = IF w.timers.interval THEN Bump(@) ELSE @,
            !.timers.interval = TRUE,
            !.poller.pollInterval = TRUE]

pollerSetTimeout(w) ==
  [w EXCEPT !.timers.leakedTimeout = IF w.timers.timeout THEN Bump(@) ELSE @,
            !.timers.timeout = TRUE,
            !.poller.timeoutTimer = TRUE]

\* variant: the handles are forgotten, the timers are not cancelled
stopPollingDropsHandles(w) ==
  [w EXCEPT !.poller.pollInterval = FALSE,
            !.poller.timeoutTimer = FALSE,
            !.poller.polling = FALSE]

\* variant: only the interval is cancelled
stopPollingKeepsTimeout(w) ==
  LET w1 == IF w.poller.pollInterval
            THEN [w EXCEPT !.timers.interval = FALSE, !.poller.pollInterval = FALSE]
            ELSE w
  IN [w1 EXCEPT !.poller.polling = FALSE]

stopPolling(w) ==
  LET w1 == IF w.poller.pollInterval
            THEN [w EXCEPT !.timers.interval = FALSE, !.poller.pollInterval = FALSE]
            ELSE w
      w2 == IF w1.poller.timeoutTimer
            THEN [w1 EXCEPT !.timers.timeout = FALSE, !.poller.timeoutTimer = FALSE]
            ELSE w1
  IN [w2 EXCEPT !.poller.polling = FALSE]

applyStatus(w, status, stateOverride) ==
  [w EXCEPT !.poller.wifiState = Coalesce(stateOverride, Coalesce(status.state, "disconnected")),
            !.poller.wifiSsid = Coalesce(status.ssid, ""),
            !.poller.wifiIp = Coalesce(status.ip, ""),
            !.poller.wifiRssi = Coalesce(status.rssi, "0"),
            !.poller.wifiQuality = Coalesce(status.quality, "0")]

\* the poller's emit, counted in the session history
\* the session history is kept for the poller on its own
pollerEmit(w, ev, arg, status) ==
  LET w1 == onPollerEvent(emit(w, w.poller.listening, ev, arg, status), ev, status)
  IN IF w.mgr.present THEN w1
     ELSE CASE ev = "connectionSucceeded" ->
                 [w1 EXCEPT !.hist.succeeded = Bump(@), !.hist.payload = status]
            [] ev = "connectionFailed"    -> [w1 EXCEPT !.hist.failed = Bump(@)]
            [] ev = "connectionTimedOut"  -> [w1 EXCEPT !.hist.timedOut = Bump(@)]
            [] OTHER -> w1

Observe(w, state) ==
  IF w.mgr.present THEN w
  ELSE [w EXCEPT !.hist.replies = Append(@, state),
                 !.hist.live = @ /\ w.poller.polling]

\* variant: the Connected branch does not stop the timers
doPollThenKeepsPolling(w, status) ==
  LET state == Coalesce(status.state, Coalesce(status.wifi_state, "disconnected"))
      w0 == Observe(w, state)
      w1 == applyStatus(w0, status, state)
      w2 == pollerEmit(w1, "wifiStateChanged", state, status)
      w3 == IF state = "connecting" THEN [w2 EXCEPT !.poller.sawConnecting = TRUE] ELSE w2
  IN IF state = "connected" THEN
       pollerEmit(w3, "connectionSucceeded", state, status)
     ELSE IF w3.poller.sawConnecting /\ state = "disconnected" THEN
       stopPolling(pollerEmit([w3 EXCEPT !.poller.connectionFailed = TRUE],
                              "connectionFailed", state, NoData))
     ELSE w3

\* variant: any Disconnected reply counts as a failure
doPollThenFailsOnDisconnected(w, status) ==
  LET state == Coalesce(status.state, Coalesce(status.wifi_state, "disconnected"))
      w0 == Observe(w, state)
      w1 == applyStatus(w0, status, state)
      w2 == pollerEmit(w1, "wifiStateChanged", state, status)
      w3 == IF state = "connecting" THEN [w2 EXCEPT !.poller.sawConnecting = TRUE] ELSE w2
  IN IF state = "connected" THEN
       stopPolling(pollerEmit(w3, "connectionSucceeded", state, status))
     ELSE IF state = "disconnected" THEN
       stopPolling(pollerEmit([w3 EXCEPT !.poller.connectionFailed = TRUE],
                              "connectionFailed", state, NoData))
     ELSE w3

\* doPoll after `await this.protocol.getStatus()` returned status
doPollThen(w, status) ==
  LET state == Coalesce(status.state, Coalesce(status.wifi_state, "disconnected"))
      w0 == Observe(w, state)
      w1 == applyStatus(w0, status, state)
      w2 == pollerEmit(w1, "wifiStateChanged", state, status)
      w3 == IF state = "connecting" THEN [w2 EXCEPT !.poller.sawConnecting = TRUE] ELSE w2
  IN IF state = "connected" THEN
       stopPolling(pollerEmit(w3, "connectionSucceeded", state, status))
     ELSE IF w3.poller.sawConnecting /\ state = "disconnected" THEN
       stopPolling(pollerEmit([w3 EXCEPT !.poller.connectionFailed = TRUE],
                              "connectionFailed", state, NoData))
     ELSE w3

\* variant: a failed query ends the session
doPollCatchStops(w, msg) ==
  stopPolling(pollerEmit([w EXCEPT !.poller.pollError = msg], "pollError", msg, NoData))

\* doPoll's catch block
doPollCatch(w, msg) ==
  pollerEmit([w EXCEPT !.poller.pollError = msg], "pollError", msg, NoData)

\* variant: the reply is handled as doPoll handles it
pollOnceThenAsDoPoll(w, status) ==
  LET state == Coalesce(status.state, Coalesce(status.wifi_state, "disconnected"))
      w1 == applyStatus(w, status, state)
      w2 == pollerEmit(w1, "wifiStateChanged", state, status)
  IN IF state = "connected" THEN stopPolling(w2) ELSE w2

\* pollOnce after the await
pollOnceThen(w, status) ==
  pollerEmit(applyStatus(w, status, NULL), "wifiStateChanged",
             Coalesce(status.state, "disconnected"), status)

\* variant: nothing is emitted when the last status said connected
handleTimeoutUnlessConnected(w) ==
  IF w.poller.wifiState = "connected" THEN stopPolling(w)
  ELSE pollerEmit(stopPolling(w), "connectionTimedOut", "", NoData)

\* variant: the session is not stopped
handleTimeoutKeepsPolling(w) ==
  pollerEmit(w, "connectionTimedOut", "", NoData)

handleTimeout(w) ==
  pollerEmit(stopPolling(w), "connectionTimedOut", "", NoData)

(***************************************************************************)
(* DeviceProtocol                                                          *)
(***************************************************************************)
NewCall(cmd, cont, ms, nonce) ==
  [cmd |-> cmd, cont |-> cont, ms |-> ms, nonce |-> nonce,
   settles |-> 0, outcome |-> "none", by |-> 0,
   timedOut |-> FALSE, writeFailed |-> FALSE, abandoned |-> FALSE]

\* the record left of a settled call when no history is kept
Retired == NewCall(NULL, NULL, 0, 0)

\* history: remember that the timer of call id fired, that its write failed, ...
Mark(w, id, what) ==
  IF ~w.audit THEN w
  ELSE CASE what = "timedOut"    -> [w EXCEPT !.calls[id].timedOut = TRUE]
         [] what = "writeFailed" -> [w EXCEPT !.calls[id].writeFailed = TRUE]
         [] what = "abandoned"   -> [w EXCEPT !.calls[id].abandoned = TRUE]

Result(ok, data, kind, msg) == [ok |-> ok, data |-> data, kind |-> kind, msg |-> msg]

\* resolve(data) / reject(error) of the promise of call id: the awaiting code
\* is scheduled
Invoke(w, id, result) ==
  LET w1 == IF w.audit
            THEN [w EXCEPT !.calls[id].settles = Bump(@),
                           !.calls[id].outcome = result.kind,
                           !.calls[id].by = w.trigger]
            ELSE [w EXCEPT !.calls[id] = Retired]
  IN Defer(Log(w1, "settle", id, result.kind, NoData), w.calls[id].cont, result)

setBusy(w, busy) ==
  IF w.proto.busy # busy
  THEN emit([w EXCEPT !.proto.busy = busy], w.proto.listening, "busyChanged",
            IF busy THEN "true" ELSE "false", NoData)
  ELSE w

clearTimeout(w) ==
  IF w.proto.timeoutTimer # 0 THEN [w EXCEPT !.proto.timeoutTimer = 0] ELSE w

\* variant: the callbacks are left in the slot
settlePendingKeepsSlot(w, data, error) ==
  LET resolve == w.proto.pendingResolve
      reject == w.proto.pendingReject
      cmd == w.proto.pendingCommand
      w1 == clearTimeout([w EXCEPT !.proto.commandNonce = @ + 1])
      w2 == setBusy([w1 EXCEPT !.proto.pendingCommand = NULL], FALSE)
  IN IF error # NoError THEN
       LET w3 == IF cmd # NULL
                 THEN emit(w2, w2.proto.listening, "commandError", error.msg, NoData)
                 ELSE w2
       IN IF reject # 0 THEN Invoke(w3, reject, Result(FALSE, NoData, error.kind, error.msg))
          ELSE w3
     ELSE IF resolve # 0 THEN Invoke(w2, resolve, Result(TRUE, data, "ok", ""))
     ELSE w2

\* variant: the callback is invoked first, the bookkeeping is reset afterwards
settlePendingCallbackFirst(w, data, error) ==
  LET resolve == w.proto.pendingResolve
      reject == w.proto.pendingReject
      cmd == w.proto.pendingCommand
      w0 == IF error # NoError THEN
              IF reject # 0 THEN Invoke(w, reject, Result(FALSE, NoData, error.kind, error.msg))
              ELSE w
            ELSE IF resolve # 0 THEN Invoke(w, resolve, Result(TRUE, data, "ok", ""))
            ELSE w
      w1 == clearTimeout([w0 EXCEPT !.proto.commandNonce = @ + 1])
      w2 == setBusy([w1 EXCEPT !.proto.pendingResolve = 0,
                               !.proto.pendingReject = 0,
                               !.proto.pendingCommand = NULL], FALSE)
  IN IF error # NoError /\ cmd # NULL
     THEN emit(w2, w2.proto.listening, "commandError", error.msg, NoData)
     ELSE w2

\* variant: the command timer is left armed
settlePendingKeepsTimer(w, data, error) ==
  LET resolve == w.proto.pendingResolve
      reject == w.proto.pendingReject
      cmd == w.proto.pendingCommand
      w1 == [w EXCEPT !.proto.commandNonce = @ + 1]
      w2 == setBusy([w1 EXCEPT !.proto.pendingResolve = 0,
                               !.proto.pendingReject = 0,
                               !.proto.pendingCommand = NULL], FALSE)
  IN IF error # NoError THEN
       LET w3 == IF cmd # NULL
                 THEN emit(w2, w2.proto.listening, "commandError", error.msg, NoData)
                 ELSE w2
       IN IF reject # 0 THEN Invoke(w3, reject, Result(FALSE, NoData, error.kind, error.msg))
          ELSE w3
     ELSE IF resolve # 0 THEN Invoke(w2, resolve, Result(TRUE, data, "ok", ""))
     ELSE w2

settlePending(w, data, error) ==
  LET resolve == w.proto.pendingResolve
      reject == w.proto.pendingReject
      cmd == w.proto.pendingCommand
      w1 == clearTimeout([w EXCEPT !.proto.commandNonce = @ + 1])
      w2 == setBusy([w1 EXCEPT !.proto.pendingResolve = 0,
                               !.proto.pendingReject = 0,
                               !.proto.pendingCommand = NULL], FALSE)
  IN IF error # NoError THEN
       LET w3 == IF cmd # NULL
                 THEN emit(w2, w2.proto.listening, "commandError", error.msg, NoData)
                 ELSE w2
       IN IF reject # 0 THEN Invoke(w3, reject, Result(FALSE, NoData, error.kind, error.msg))
          ELSE w3
     ELSE IF resolve # 0 THEN Invoke(w2, resolve, Result(TRUE, data, "ok", ""))
     ELSE w2

\* variant: the slot is not looked at
handleResponseUnguarded(w, jsonText) ==
  LET response == JSONParse(jsonText)
  IN IF ~response.valid THEN
       settlePending(w, NoData, Err("invalidResponse", "Invalid JSON response"))
     ELSE IF response.status = "ok" \/ response.status = "success" THEN
       settlePending(w, IF response.hasData THEN response.data ELSE NoData, NoError)
     ELSE
       LET msg == IF response.error # NULL /\ response.error # "" THEN response.error
                  ELSE IF response.message # NULL /\ response.message # "" THEN response.message
                  ELSE "Command failed"
       IN settlePending(w, NoData, Err("deviceError", msg))

handleResponse(w, jsonText) ==
  IF w.proto.pendingResolve = 0 \/ w.proto.pendingReject = 0 THEN
    Log(w, "strayResponse", 0, "", NoData)
  ELSE
    LET response == JSONParse(jsonText)
    IN IF ~response.valid THEN
         settlePending(w, NoData, Err("invalidResponse", "Invalid JSON response"))
       ELSE IF response.status = "ok" \/ response.status = "success" THEN
         settlePending(w, IF response.hasData THEN response.data ELSE NoData, NoError)
       ELSE
         LET msg == IF response.error # NULL /\ response.error # "" THEN response.error
                    ELSE IF response.message # NULL /\ response.message # "" THEN response.message
                    ELSE "Command failed"
         IN settlePending(w, NoData, Err("deviceError", msg))

\* explicit is << >> for an absent argument, << ms >> otherwise
resolveTimeout(config, cmd, explicit) ==
  IF explicit # << >> THEN explicit[1]
  ELSE IF cmd \in DOMAIN config.commandTimeouts THEN config.commandTimeouts[cmd]
  ELSE IF cmd \in DOMAIN COMMAND_TIMEOUTS THEN COMMAND_TIMEOUTS[cmd]
  ELSE config.defaultTimeoutMs

\* variant: the timer callback rejects the promise itself
onCommandTimeoutRejectsDirectly(w) ==
  IF w.proto.pendingReject # 0
  THEN Invoke([w EXCEPT !.proto.timeoutTimer = 0], w.proto.pendingReject,
              Result(FALSE, NoData, "timeout", "timed out"))
  ELSE [w EXCEPT !.proto.timeoutTimer = 0]

\* the callback given to setTimeout in sendCommand
onCommandTimeout(w) ==
  settlePending([w EXCEPT !.proto.timeoutTimer = 0], NoData, Err("timeout", "timed out"))

\* variant: no nonce comparison
onWriteErrorUnguarded(w, nonce) ==
  settlePending(w, NoData, Err("writeFailed", "BLE write failed"))

\* the .catch() handler on transport.writeCommand in sendCommand
onWriteError(w, nonce) ==
  IF nonce # w.proto.commandNonce THEN Log(w, "staleWriteError", w.trigger, "", NoData)
  ELSE settlePending(w, NoData, Err("writeFailed", "BLE write failed"))

\* BleTransport.writeCommand as sendCommand calls it: it throws at once when
\* the transport is not connected, and the .catch() handler is scheduled;
\* otherwise the write is under way
writeCommand(w, id, nonce) ==
  IF w.ble.device /\ w.ble.connectionState = "connected"
  THEN [w EXCEPT !.writes = @ \cup {[id |-> id, nonce |-> nonce]}]
  ELSE Defer(w, "writeCatch", [id |-> id, nonce |-> nonce])

\* variant: no busy check
sendCommandWhileBusy(w, cmd, explicit, cont) ==
  LET w0 == Log(w, "sendCommand", 0, cmd, NoData)
      id == Len(w0.calls) + 1
      w1 == setBusy(w0, TRUE)
      w2 == [w1 EXCEPT !.proto.pendingCommand = cmd]
      ms == resolveTimeout(w2.proto.config, cmd, explicit)
      nonce == w2.proto.commandNonce
  IN writeCommand([w2 EXCEPT !.proto.pendingResolve = id,
                              !.proto.pendingReject = id,
                              !.proto.timeoutTimer = id,
                              !.calls = Append(@, NewCall(cmd, cont, ms, nonce))],
                  id, nonce)

\* variant: no timer is armed for the command
sendCommandWithoutTimer(w, cmd, explicit, cont) ==
  LET w0 == Log(w, "sendCommand", 0, cmd, NoData)
  IN IF w0.proto.busy THEN
       Defer(Log(w0, "settle", 0, "busy", NoData), cont,
             Result(FALSE, NoData, "busy", "Command already in progress"))
     ELSE
       LET id == Len(w0.calls) + 1
           w1 == setBusy(w0, TRUE)
           w2 == [w1 EXCEPT !.proto.pendingCommand = cmd]
           ms == resolveTimeout(w2.proto.config, cmd, explicit)
           nonce == w2.proto.commandNonce
       IN writeCommand([w2 EXCEPT !.proto.pendingResolve = id,
                                   !.proto.pendingReject = id,
                                   !.calls = Append(@, NewCall(cmd, cont, ms, nonce))],
                       id, nonce)

sendCommand(w, cmd, explicit, cont) ==
  LET w0 == Log(w, "sendCommand", 0, cmd, NoData)
  IN IF w0.proto.busy THEN
       Defer(Log(w0, "settle", 0, "busy", NoData), cont,
             Result(FALSE, NoData, "busy", "Command already in progress"))
     ELSE
       LET id == Len(w0.calls) + 1
           w1 == setBusy(w0, TRUE)
           w2 == [w1 EXCEPT !.proto.pendingCommand = cmd]
           ms == resolveTimeout(w2.proto.config, cmd, explicit)
           nonce == w2.proto.commandNonce
       IN writeCommand([w2 EXCEPT !.proto.pendingResolve = id,
                                   !.proto.pendingReject = id,
                                   !.proto.timeoutTimer = id,
                                   !.calls = Append(@, NewCall(cmd, cont, ms, nonce))],
                       id, nonce)

getStatus(w, cont) == sendCommand(w, "get_status", << >>, cont)

\* variant: the in-flight command is rejected, as the method's summary says
DeviceProtocol_destroyRejects(w) ==
  LET id == w.proto.pendingResolve
      w1 == IF id # 0 THEN Mark(w, id, "abandoned") ELSE w
      w2 == [w1 EXCEPT !.proto.subscribed = FALSE]
      w3 == IF id # 0 THEN settlePending(w2, NoData, Err("destroyed", "destroyed")) ELSE w2
  IN [w3 EXCEPT !.proto.listening = FALSE]

DeviceProtocol_destroy(w) ==
  LET id == w.proto.pendingResolve
      w1 == IF id # 0 THEN Mark(w, id, "abandoned") ELSE w
      w2 == clearTimeout([w1 EXCEPT !.proto.subscribed = FALSE,
                                    !.proto.commandNonce = @ + 1])
  IN [w2 EXCEPT !.proto.pendingResolve = 0,
                !.proto.pendingReject = 0,
                !.proto.pendingCommand = NULL,
                !.proto.busy = FALSE,
                !.proto.listening = FALSE]

(***************************************************************************)
(* ConnectionPoller, public operations                                     *)
(***************************************************************************)
NoHist == [replies |-> << >>, live |-> TRUE, succeeded |-> 0, failed |-> 0, timedOut |-> 0,
           payload |-> NoData]

doPoll(w) == getStatus(w, "doPoll")

\* variant: no check of _polling
startPollingUnguarded(w) ==
  doPoll(pollerSetTimeout(pollerSetInterval(
           [w EXCEPT !.poller.polling = TRUE,
                     !.poller.connectionFailed = FALSE,
                     !.poller.pollError = NULL,
                     !.poller.sawConnecting = FALSE,
                     !.hist = NoHist])))

startPolling(w) ==
  IF w.poller.polling THEN w
  ELSE doPoll(pollerSetTimeout(pollerSetInterval(
                [w EXCEPT !.poller.polling = TRUE,
                          !.poller.connectionFailed = FALSE,
                          !.poller.pollError = NULL,
                          !.poller.sawConnecting = FALSE,
                          !.hist = NoHist])))

pollOnce(w) == getStatus(w, "pollOnce")

ConnectionPoller_reset(w) ==
  [stopPolling(w) EXCEPT !.poller.wifiState = "disconnected",
                         !.poller.wifiSsid = "",
                         !.poller.wifiIp = "",
                         !.poller.wifiRssi = "0",
                         !.poller.wifiQuality = "0",
                         !.poller.sawConnecting = FALSE,
                         !.poller.connectionFailed = FALSE,
                         !.poller.pollError = NULL,
                         !.hist = NoHist]

ConnectionPoller_destroy(w) ==
  [stopPolling(w) EXCEPT !.poller.listening = FALSE]

(***************************************************************************)
(* BleTransport: connection state.  ble.connecting tells that a connect()  *)
(* is waiting for the BLE library (the awaits from the radio link to the   *)
(* monitoring of the characteristics are taken as one), and ble.cancels    *)
(* lists the disconnect() calls waiting for cancelDeviceConnection, each   *)
(* with the code that awaits it.  The adapter is powered on, so that       *)
(* waitForPoweredOn answers at once.                                       *)
(***************************************************************************)
Ok == Result(TRUE, NoData, "ok", "")
Fail(msg) == Result(FALSE, NoData, "error", msg)

\* the ConnectedDeviceInfo connect() builds of the device it connected to
DeviceInfo == [id |-> "dev-1", name |-> "ESP32-WiFi"]

cleanupSubscriptions(w) == [w EXCEPT !.ble.subscribed = FALSE]

RECURSIVE setConnectionState(_, _)

\* disconnect() from `this.device = null` on
disconnectEnd(w) ==
  setConnectionState([w EXCEPT !.ble.device = FALSE, !.ble.connectedDeviceInfo = << >>],
                     "disconnected")

\* disconnect(), awaited by the code cont
transportDisconnect(w, cont) ==
  LET w1 == cleanupSubscriptions(w)
  IN IF w.ble.device
     THEN [w1 EXCEPT !.ble.cancels = Append(@, cont)]
     ELSE Defer(disconnectEnd(w1), cont, Ok)

handleUnexpectedDisconnect(w) ==
  setConnectionState([cleanupSubscriptions(w) EXCEPT !.ble.device = FALSE,
                                                     !.ble.connectedDeviceInfo = << >>],
                     "disconnected")

stopScan(w) ==
  IF w.ble.connectionState # "scanning" THEN w
  ELSE Log(setConnectionState(w, "disconnected"), "scanStopped", 0, "", NoData)

startScan(w) ==
  IF w.ble.connectionState \in {"scanning", "connected", "connecting"} THEN w
  ELSE setConnectionState(w, "scanning")

\* connect() up to `await this.bleManager.connectToDevice(...)`
transportConnect(w) ==
  LET w1 == IF w.ble.connectionState = "scanning"
            THEN Log(w, "scanStopped", 0, "", NoData) ELSE w
  IN [setConnectionState(w1, "connecting") EXCEPT !.ble.connecting = TRUE]

\* connect() after its awaits, when everything succeeded
connectSucceeded(w) ==
  Defer(setConnectionState([w EXCEPT !.ble.device = TRUE, !.ble.subscribed = TRUE,
                                     !.ble.connectedDeviceInfo = << DeviceInfo >>,
                                     !.ble.connecting = FALSE],
                           "connected"),
        "connectToDevice", Ok)

\* connect() when an await in the try block threw
connectFailed(w) ==
  Defer(Log(setConnectionState([cleanupSubscriptions(w) EXCEPT !.ble.device = FALSE,
                                                             !.ble.connectedDeviceInfo = << >>,
                                                             !.ble.connecting = FALSE],
                               "disconnected"),
            "error", 0, "Connection failed", NoData),
        "connectToDevice", Fail("Connection failed"))

(***************************************************************************)
(* ProvisioningManager                                                     *)
(***************************************************************************)
\* variant: the list is stored in the order the device sent it
InsertByRssiAtEnd(t, x) == t \o << x >>

InsertByRssi(t, x) ==
  LET k == Cardinality({i \in DOMAIN t : t[i].rssi >= x.rssi})
  IN SubSeq(t, 1, k) \o << x >> \o SubSeq(t, k + 1, Len(t))

\* [...list].sort((a, b) => b.rssi - a.rssi): stable, strongest signal first
RECURSIVE sortByRssi(_)
sortByRssi(list) ==
  IF list = << >> THEN list
  ELSE InsertByRssi(sortByRssi(SubSeq(list, 1, Len(list) - 1)), list[Len(list)])

\* reset() up to `await this.transport.disconnect()`
ProvisioningManager_reset(w) ==
  LET w0 == Log(w, "reset", 0, w.mgr.step, NoData)
      w1 == [w0 EXCEPT !.mgr.step = "welcome",
                       !.mgr.selectedNetwork = << >>,
                       !.mgr.scannedNetworks = << >>]
  IN transportDisconnect(ConnectionPoller_reset(w1), "reset")

\* reset() after the await, whether disconnect() threw or not
resetThen(w) ==
  LET w1 == mgrEmit(w, "provisioningReset", "", NoData)
      w2 == mgrEmit(w1, "stepChanged", "welcome", NoData)
      w3 == mgrEmit(w2, "selectedNetworkChanged", NULL, NoData)
  IN mgrEmit(w3, "scannedNetworksUpdated", "", NoData)

\* the listener on the transport's 'connectionStateChanged'
\* variant: the listener does not look at the step
onConnectionStateChangedAtAnyStep(w, state) ==
  IF w.mgr.subscribed /\ state = "disconnected"
  THEN ProvisioningManager_reset(setError(w, "Bluetooth connection lost"))
  ELSE w

onConnectionStateChanged(w, state) ==
  IF w.mgr.subscribed /\ state = "disconnected"
     /\ w.mgr.step # "welcome" /\ w.mgr.step # "connect"
  THEN ProvisioningManager_reset(setError(w, "Bluetooth connection lost"))
  ELSE w

setConnectionState(w, state) ==
  IF w.ble.connectionState = state THEN w
  ELSE onConnectionStateChanged(
         Log([w EXCEPT !.ble.connectionState = state], "connectionStateChanged", 0, state, NoData),
         state)

\* scanForDevices() up to its first await, or to its end
scanForDevices(w) ==
  LET w1 == clearError(Log(w, "scanForDevices", 0, w.mgr.step, NoData))
  IN IF w1.ble.connectionState = "connected"
     THEN transportDisconnect(w1, "scanForDevices")
     ELSE setStep(startScan(w1), "welcome")

\* `await delay(DISCONNECT_SETTLE_MS)`
scanForDevicesThen(w) == [w EXCEPT !.timers.settle = @ + 1]

scanForDevicesAfterDelay(w) == setStep(startScan(w), "welcome")

scanWifiNetworks(w) ==
  sendCommand(clearError(w), "scan", << 15000 >>, "scanWifiNetworks")

\* variant: a failed scan sends the wizard back to the welcome screen
scanWifiNetworksThenReverts(w, result) ==
  IF result.ok THEN
    LET networks == sortByRssi(result.data.networks)
    IN setStep(mgrEmit([w EXCEPT !.mgr.scannedNetworks = networks],
                       "scannedNetworksUpdated", "", NoData),
               "networks")
  ELSE setStep(setError(w, result.msg), "welcome")

scanWifiNetworksThen(w, result) ==
  IF result.ok THEN
    LET networks == sortByRssi(result.data.networks)
    IN setStep(mgrEmit([w EXCEPT !.mgr.scannedNetworks = networks],
                       "scannedNetworksUpdated", "", NoData),
               "networks")
  ELSE setStep(setError(w, result.msg), "networks")

connectToDevice(w) ==
  LET w1 == clearError(Log(w, "connectToDevice", 0, w.mgr.step, NoData))
      w2 == setStep(stopScan(w1), "connect")
  IN transportConnect(Log(w2, "transportConnect", 0, w2.mgr.step, NoData))

\* variant: a failed connection leaves the wizard on the connect screen
connectToDeviceThenStaysOnConnect(w, result) ==
  IF ~result.ok THEN setError(w, result.msg)
  ELSE scanWifiNetworks(w)

connectToDeviceThen(w, result) ==
  IF ~result.ok THEN setStep(setError(w, result.msg), "welcome")
  ELSE scanWifiNetworks(w)

selectNetwork(w, network) ==
  setStep(mgrEmit([w EXCEPT !.mgr.selectedNetwork = << network >>],
                  "selectedNetworkChanged", network.ssid, NoData),
          "credentials")

\* variant: the selection is not looked at
submitCredentialsUnchecked(w) ==
  sendCommand(clearError(Log(w, "submitCredentials", 0, w.mgr.step, NoData)),
              "add_network", << >>, "submitCredentials:addNetwork")

submitCredentials(w) ==
  LET w1 == clearError(Log(w, "submitCredentials", 0, w.mgr.step, NoData))
  IN IF w1.mgr.selectedNetwork = << >> THEN setError(w1, "No network selected")
     ELSE sendCommand(w1, "add_network", << >>, "submitCredentials:addNetwork")

\* after `await this.protocol.addNetwork(...)`; reading .ssid of a selection
\* that has become null throws a TypeError inside the try block
\* variant: connectWifi is sent whether addNetwork succeeded or not
submitCredentialsAddedThenConnectsAnyway(w, result) ==
  IF w.mgr.selectedNetwork = << >> THEN setError(w, "TypeError")
  ELSE sendCommand(w, "connect", << >>, "submitCredentials:connectWifi")

submitCredentialsAdded(w, result) ==
  IF ~result.ok THEN setError(w, result.msg)
  ELSE IF w.mgr.selectedNetwork = << >> THEN setError(w, "TypeError")
  ELSE sendCommand(w, "connect", << >>, "submitCredentials:connectWifi")

submitCredentialsConnected(w, result) ==
  IF ~result.ok THEN setError(w, result.msg)
  ELSE startPolling(setStep(w, "connecting"))

retryConnection(w) ==
  LET w1 == clearError(Log(w, "retryConnection", 0, w.mgr.step, NoData))
  IN IF w1.mgr.selectedNetwork = << >> THEN setError(w1, "No network selected")
     ELSE sendCommand(ConnectionPoller_reset(w1), "connect", << >>, "retryConnection")

\* variant: polling is not started again
retryConnectionThenWithoutPolling(w, result) ==
  IF ~result.ok THEN setError(w, result.msg)
  ELSE w

retryConnectionThen(w, result) ==
  IF ~result.ok THEN setError(w, result.msg)
  ELSE startPolling(w)

\* variant: the selection is kept
deleteNetworkAndReturnThenKeepsSelection(w) == scanWifiNetworks(w)

\* deleteNetworkAndReturn() from `this._selectedNetwork = null` on
deleteNetworkAndReturnThen(w) ==
  scanWifiNetworks(mgrEmit([w EXCEPT !.mgr.selectedNetwork = << >>],
                           "selectedNetworkChanged", NULL, NoData))

deleteNetworkAndReturn(w) ==
  LET w1 == ConnectionPoller_reset(Log(w, "deleteNetworkAndReturn", 0, w.mgr.step, NoData))
  IN IF w1.mgr.selectedNetwork # << >>
     THEN sendCommand(w1, "del_network", << >>, "deleteNetworkAndReturn")
     ELSE deleteNetworkAndReturnThen(w1)

goToNetworks(w) ==
  setStep(mgrEmit([w EXCEPT !.mgr.selectedNetwork = << >>],
                  "selectedNetworkChanged", NULL, NoData),
          "networks")

goToManage(w) == setStep(w, "manage")

(***************************************************************************)
(* serviceFactory.  A service is known by the number of the                *)
(* initializeServices call that constructed it, 0 is null.  factory.sets   *)
(* has one entry per set of four services constructed: the config they     *)
(* were constructed with and how far destroyServices has torn them down.   *)
(* factory.returned is what each getter returned last, factory.last the    *)
(* function of the factory that ran last.  A config is << >> when the      *)
(* argument is absent (undefined).                                         *)
(***************************************************************************)
Getters == {"transport", "protocol", "poller", "manager"}

NoServices ==
  [transport |-> 0, protocol |-> 0, poller |-> 0, manager |-> 0, storedConfig |-> << >>,
   sets |-> << >>, returned |-> [g \in Getters |-> 0], last |-> "none"]

\* the four constructors
construct(f) ==
  LET n == Len(f.sets) + 1
  IN [f EXCEPT !.transport = n, !.protocol = n, !.poller = n, !.manager = n,
               !.sets = Append(@, [config |-> f.storedConfig, stage |-> "live"])]

\* variant: existing services are replaced by new ones
initializeServicesRecreates(f, config) ==
  construct(IF config # << >> THEN [f EXCEPT !.storedConfig = config] ELSE f)

initializeServices(f, config) ==
  IF f.transport # 0 THEN f
  ELSE construct(IF config # << >> THEN [f EXCEPT !.storedConfig = config] ELSE f)

getTransport(f) ==
  LET f1 == IF f.transport = 0 THEN initializeServices(f, f.storedConfig) ELSE f
  IN [f1 EXCEPT !.returned.transport = f1.transport]

getProtocol(f) ==
  LET f1 == IF f.protocol = 0 THEN initializeServices(f, f.storedConfig) ELSE f
  IN [f1 EXCEPT !.returned.protocol = f1.protocol]

getPoller(f) ==
  LET f1 == IF f.poller = 0 THEN initializeServices(f, f.storedConfig) ELSE f
  IN [f1 EXCEPT !.returned.poller = f1.poller]

getManager(f) ==
  LET f1 == IF f.manager = 0 THEN initializeServices(f, f.storedConfig) ELSE f
  IN [f1 EXCEPT !.returned.manager = f1.manager]

\* destroyServices() up to its first await: the references are nulled, and
\* the manager's destroy() is awaited when there was a manager
destroyServices(f) ==
  LET prev == f.manager
      f1 == [f EXCEPT !.manager = 0, !.poller = 0, !.protocol = 0, !.transport = 0]
  IN IF prev # 0 THEN [f1 EXCEPT !.sets[prev].stage = "manager"] ELSE f1

\* destroyServices() after `await prevManager.destroy()`: the poller and the
\* protocol are destroyed, the transport's destroy() is awaited
destroyServicesThen(f, n) == [f EXCEPT !.sets[n].stage = "transport"]

\* destroyServices() after `await prevTransport.destroy()`
destroyServicesEnd(f, n) == [f EXCEPT !.sets[n].stage = "done"]

(***************************************************************************)
(* Bounds                                                                  *)
(***************************************************************************)
\* commands a caller may get accepted by sendCommand in one behaviour
MaxCmds == 3
\* status queries the poller may get accepted in one behaviour
MaxQueries == 3
\* commands accepted in one behaviour of the wizard
MaxWizardCmds == 3
\* disconnects (and settle delays) of the wizard under way at the same time
MaxCancels == 1
\* sets of services the factory constructs in one behaviour
MaxServiceSets == 2

(***************************************************************************)
(* The end of a task: the scheduled continuations run, in order.           *)
(***************************************************************************)
\* the code that awaits a promise, resumed with the promise's result
Continue(w, cont, result) ==
  CASE cont = "doPoll"   -> IF result.ok THEN doPollThen(w, result.data)
                            ELSE doPollCatch(w, result.msg)
    [] cont = "pollOnce" -> IF result.ok THEN pollOnceThen(w, result.data) ELSE w
    [] cont = "writeCatch" ->
         onWriteError(Mark([w EXCEPT !.trigger = result.id], result.id, "writeFailed"),
                      result.nonce)
    [] cont = "reset" -> resetThen(w)
    [] cont = "scanForDevices" -> scanForDevicesThen(w)
    [] cont = "connectToDevice" -> connectToDeviceThen(w, result)
    [] cont = "scanWifiNetworks" -> scanWifiNetworksThen(w, result)
    [] cont = "submitCredentials:addNetwork" -> submitCredentialsAdded(w, result)
    [] cont = "submitCredentials:connectWifi" -> submitCredentialsConnected(w, result)
    [] cont = "retryConnection" -> retryConnectionThen(w, result)
    [] cont = "deleteNetworkAndReturn" -> deleteNetworkAndReturnThen(w)
    [] OTHER             -> w

RECURSIVE Drain(_)
Drain(w) ==
  IF w.micro = << >> THEN w
  ELSE Drain(Continue([w EXCEPT !.micro = Tail(@)], Head(w.micro).cont, Head(w.micro).result))

\* the wizard's behaviours are explored up to MaxWizardCmds accepted commands
\* and MaxCancels disconnects or settle delays under way at a time
InBudget(w) ==
  w.mgr.present => /\ Len(w.calls) <= MaxWizardCmds
                   /\ Len(w.ble.cancels) <= MaxCancels
                   /\ w.timers.settle <= MaxCancels

\* The wizard is explored with a device that answers a command before the
\* command's timer fires or not at all: what is left on the link of a command
\* that is settled is dropped.
Link(w, ids) ==
  IF w.mgr.present THEN ids \cap {w.proto.pendingResolve} ELSE ids

\* the state at the end of a task is the world d
Assign(d) ==
  /\ proto' = d.proto
  /\ writes' = {wr \in d.writes : wr.id \in Link(d, {wr.id})}
  /\ inflight' = Link(d, d.inflight)
  /\ calls' = d.calls
  /\ poller' = d.poller
  /\ hist' = d.hist
  /\ audit' = d.audit
  /\ emitted' = IF d.mgr.present THEN << >> ELSE d.emitted
  /\ timers' = d.timers
  /\ ble' = d.ble
  /\ mgr' = d.mgr
  /\ InBudget(d)

Commit(w) == Assign(Drain(w))

(***************************************************************************)
(* Initial states                                                          *)
(***************************************************************************)
NoTimers == [interval |-> FALSE, timeout |-> FALSE, leakedInterval |-> 0, leakedTimeout |-> 0,
             settle |-> 0]
NoWire == [type |-> "response", text |-> << >>, pos |-> 0]
DefaultConfig == [defaultTimeoutMs |-> DEFAULT_COMMAND_TIMEOUT_MS, commandTimeouts |-> << >>]

InitWith(w, config, keep) ==
  /\ transport = [responseBuffer |-> << >>, statusBuffer |-> << >>]
  /\ wire = w
  /\ delivered = [response |-> << >>, status |-> << >>]
  /\ proto = [busy |-> FALSE, pendingResolve |-> 0, pendingReject |-> 0,
              pendingCommand |-> NULL, timeoutTimer |-> 0, commandNonce |-> 0,
              config |-> config, subscribed |-> TRUE, listening |-> TRUE]
  /\ writes = {}
  /\ inflight = {}
  /\ calls = << >>
  /\ poller = [pollInterval |-> FALSE, timeoutTimer |-> FALSE, polling |-> FALSE,
               sawConnecting |-> FALSE, connectionFailed |-> FALSE, pollError |-> NULL,
               wifiState |-> "disconnected", wifiSsid |-> "", wifiIp |-> "",
               wifiRssi |-> "0", wifiQuality |-> "0", listening |-> TRUE]
  /\ hist = NoHist
  /\ audit = keep
  /\ emitted = << >>
  /\ timers = NoTimers
  /\ ble = [connectionState |-> "connected", device |-> TRUE, subscribed |-> TRUE,
            connectedDeviceInfo |-> << DeviceInfo >>, connecting |-> FALSE, cancels |-> << >>]
  /\ mgr = [present |-> FALSE, subscribed |-> FALSE, listening |-> FALSE, step |-> "welcome",
            selectedNetwork |-> << >>, scannedNetworks |-> << >>]
  /\ factory = NoServices

InitFramer ==
  \E type \in Channels, text \in WireTexts :
    InitWith([type |-> type, text |-> text, pos |-> 0], DefaultConfig, TRUE)

InitChannel == InitWith(NoWire, DefaultConfig, TRUE)

InitPoller == InitWith(NoWire, DefaultConfig, FALSE)

\* the module serviceFactory as it is loaded: no service exists
InitFactory == InitWith(NoWire, DefaultConfig, FALSE)

\* the four services as serviceFactory creates them: nothing connected, the
\* manager subscribed to the transport and to the poller
WizardCreated ==
  /\ proto = [busy |-> FALSE, pendingResolve |-> 0, pendingReject |-> 0,
              pendingCommand |-> NULL, timeoutTimer |-> 0, commandNonce |-> 0,
              config |-> DefaultConfig, subscribed |-> TRUE, listening |-> TRUE]
  /\ ble = [connectionState |-> "disconnected", device |-> FALSE, subscribed |-> FALSE,
            connectedDeviceInfo |-> << >>, connecting |-> FALSE, cancels |-> << >>]
  /\ mgr = [present |-> TRUE, subscribed |-> TRUE, listening |-> TRUE, step |-> "welcome",
            selectedNetwork |-> << >>, scannedNetworks |-> << >>]

\* the wizard on the credentials screen: connected, the first scan answered
\* with the networks of TextScanThree, the network A selected
WizardAtCredentials ==
  /\ proto = [busy |-> FALSE, pendingResolve |-> 0, pendingReject |-> 0,
              pendingCommand |-> NULL, timeoutTimer |-> 0, commandNonce |-> 1,
              config |-> DefaultConfig, subscribed |-> TRUE, listening |-> TRUE]
  /\ ble = [connectionState |-> "connected", device |-> TRUE, subscribed |-> TRUE,
            connectedDeviceInfo |-> << DeviceInfo >>, connecting |-> FALSE, cancels |-> << >>]
  /\ mgr = [present |-> TRUE, subscribed |-> TRUE, listening |-> TRUE, step |-> "credentials",
            selectedNetwork |-> << NetA >>,
            scannedNetworks |-> << NetB, NetC, NetA >>]

\* the wizard on the connecting screen: the credentials were accepted and the
\* first status query was answered with TextConnecting
WizardAtConnecting ==
  /\ proto = [busy |-> FALSE, pendingResolve |-> 0, pendingReject |-> 0,
              pendingCommand |-> NULL, timeoutTimer |-> 0, commandNonce |-> 4,
              config |-> DefaultConfig, subscribed |-> TRUE, listening |-> TRUE]
  /\ ble = [connectionState |-> "connected", device |-> TRUE, subscribed |-> TRUE,
            connectedDeviceInfo |-> << DeviceInfo >>, connecting |-> FALSE, cancels |-> << >>]
  /\ mgr = [present |-> TRUE, subscribed |-> TRUE, listening |-> TRUE, step |-> "connecting",
            selectedNetwork |-> << NetA >>,
            scannedNetworks |-> << NetB, NetC, NetA >>]
  /\ poller = [pollInterval |-> TRUE, timeoutTimer |-> TRUE, polling |-> TRUE,
               sawConnecting |-> TRUE, connectionFailed |-> FALSE, pollError |-> NULL,
               wifiState |-> "connecting", wifiSsid |-> "Net", wifiIp |-> "",
               wifiRssi |-> "0", wifiQuality |-> "0", listening |-> TRUE]
  /\ timers = [NoTimers EXCEPT !.interval = TRUE, !.timeout = TRUE]

PollerCreated ==
  /\ poller = [pollInterval |-> FALSE, timeoutTimer |-> FALSE, polling |-> FALSE,
               sawConnecting |-> FALSE, connectionFailed |-> FALSE, pollError |-> NULL,
               wifiState |-> "disconnected", wifiSsid |-> "", wifiIp |-> "",
               wifiRssi |-> "0", wifiQuality |-> "0", listening |-> TRUE]
  /\ timers = NoTimers

\* a behaviour of the wizard starts at one of the three, with no command sent
\* to the device that is still to be written, answered or timed out
InitWizard ==
  /\ transport = [responseBuffer |-> << >>, statusBuffer |-> << >>]
  /\ wire = NoWire
  /\ delivered = [response |-> << >>, status |-> << >>]
  /\ writes = {}
  /\ inflight = {}
  /\ calls = << >>
  /\ hist = NoHist
  /\ audit = FALSE
  /\ emitted = << >>
  /\ factory = construct(NoServices)
  /\ \/ WizardCreated /\ PollerCreated
     \/ WizardAtCredentials /\ PollerCreated
     \/ WizardAtConnecting

(***************************************************************************)
(* Actions of the transport's notification path                            *)
(***************************************************************************)
\* the device notifies the next k characters of its message
Notify ==
  \E k \in 1 .. (Len(wire.text) - wire.pos) :
    LET chunk == SubSeq(wire.text, wire.pos + 1, wire.pos + k)
        r == handleNotification(transport, wire.type, stringToBase64(chunk))
    IN /\ transport' = r.t
       /\ wire' = [wire EXCEPT !.pos = @ + k]
       /\ delivered' = [delivered EXCEPT ![wire.type] = @ \o r.out]
       /\ UNCHANGED <<proto, writes, inflight, calls, poller, hist, audit, emitted,
                      timers, ble, mgr, factory>>

(***************************************************************************)
(* Actions of the command channel                                          *)
(***************************************************************************)
Room(max) == Len(calls) < max

SendCommand ==
  \E h \in Helpers :
    /\ proto.subscribed
    /\ proto.busy \/ Room(MaxCmds)
    /\ Commit(sendCommand(World(0), h.cmd, h.timeoutMs, "user"))
    /\ UNCHANGED <<transport, wire, delivered, factory>>

\* transport.writeCommand resolves (sendCommand attached no handler to that):
\* the device has the command and will answer it
WriteSucceeds ==
  \E wr \in writes :
    /\ writes' = writes \ {wr}
    /\ inflight' = inflight \cup {wr.id}
    /\ emitted' = << >>
    /\ ble.device
    /\ UNCHANGED <<transport, wire, delivered, proto, calls, poller, hist, audit,
                   timers, ble, mgr, factory>>

\* transport.writeCommand rejects
WriteFails ==
  \E wr \in writes :
    LET w == Mark([World(wr.id) EXCEPT !.writes = @ \ {wr}], wr.id, "writeFailed")
    IN /\ Commit(onWriteError(w, wr.nonce))
       /\ UNCHANGED <<transport, wire, delivered, factory>>

CommandTimeout ==
  /\ proto.timeoutTimer # 0
  /\ LET id == proto.timeoutTimer
         w == Mark(World(id), id, "timedOut")
     IN Commit(onCommandTimeout(w))
  /\ UNCHANGED <<transport, wire, delivered, factory>>

\* the device's reply to command id reaches the transport's 'response' event
DeviceReplies(cmd) ==
  IF mgr.present THEN ReplyTexts(cmd) \cap WizardTexts ELSE ReplyTexts(cmd)

ResponseArrives ==
  \E id \in inflight :
   \E text \in DeviceReplies(calls[id].cmd) :
    LET w == [World(id) EXCEPT !.inflight = @ \ {id}]
    IN /\ ble.subscribed
       /\ Commit(IF proto.subscribed THEN handleResponse(w, text) ELSE w)
       /\ UNCHANGED <<transport, wire, delivered, factory>>

Destroy ==
  /\ proto.subscribed
  /\ Commit(DeviceProtocol_destroy(World(0)))
  /\ UNCHANGED <<transport, wire, delivered, factory>>

(***************************************************************************)
(* Actions of the poller                                                   *)
(***************************************************************************)
StartPolling ==
  /\ poller.listening
  /\ poller.polling \/ proto.busy \/ Room(MaxQueries)
  /\ Commit(startPolling(World(0)))
  /\ UNCHANGED <<transport, wire, delivered, factory>>

StopPolling ==
  /\ poller.listening
  /\ Commit(stopPolling(Log(World(0), "call", 0, "stopPolling", NoData)))
  /\ UNCHANGED <<transport, wire, delivered, factory>>

PollOnce ==
  /\ poller.listening
  /\ proto.busy \/ Room(MaxQueries)
  /\ Commit(pollOnce(World(0)))
  /\ UNCHANGED <<transport, wire, delivered, factory>>

PollerReset ==
  /\ poller.listening
  /\ Commit(ConnectionPoller_reset(Log(World(0), "call", 0, "reset", NoData)))
  /\ UNCHANGED <<transport, wire, delivered, factory>>

PollerDestroy ==
  /\ poller.listening
  /\ Commit(ConnectionPoller_destroy(Log(World(0), "call", 0, "destroy", NoData)))
  /\ UNCHANGED <<transport, wire, delivered, factory>>

\* the setInterval callback
PollTick ==
  /\ timers.interval \/ timers.leakedInterval > 0
  /\ proto.busy \/ Room(IF mgr.present THEN MaxWizardCmds ELSE MaxQueries)
  /\ Commit(doPoll(World(0)))
  /\ UNCHANGED <<transport, wire, delivered, factory>>

\* the setTimeout callback of startPolling
PollTimeout ==
  \E leaked \in BOOLEAN :
    /\ IF leaked THEN timers.leakedTimeout > 0 ELSE timers.timeout
    /\ LET w == World(0)
       IN Commit(handleTimeout(IF leaked
                               THEN [w EXCEPT !.timers.leakedTimeout = @ - 1]
                               ELSE [w EXCEPT !.timers.timeout = FALSE]))
  /\ UNCHANGED <<transport, wire, delivered, factory>>

(***************************************************************************)
(* Actions of the wizard: the calls of the user interface on the manager   *)
(***************************************************************************)
Step(w) ==
  /\ Commit(w)
  /\ UNCHANGED <<transport, wire, delivered, factory>>

\* the command in the channel's slot was sent by an operation of the manager
ManagerCommandPending ==
  /\ proto.pendingResolve # 0
  /\ calls[proto.pendingResolve].cont # "doPoll"

\* No operation of the manager is waiting for the transport or the device.
\* The callers of the manager serialize their calls: the user interface
\* starts an operation only then.  reset() is the exception, it is the way
\* out of any screen (and the manager calls it itself).
Quiet ==
  /\ ~ble.connecting
  /\ ble.cancels = << >>
  /\ timers.settle = 0
  /\ ~ManagerCommandPending

ScanForDevices ==
  /\ Quiet
  /\ Step(scanForDevices(World(0)))

ConnectToDevice ==
  /\ Quiet
  /\ Step(connectToDevice(World(0)))

ScanWifiNetworks ==
  /\ Quiet
  /\ Step(scanWifiNetworks(Log(World(0), "scanWifiNetworks", 0, mgr.step, NoData)))

SelectNetwork ==
  /\ Quiet
  /\ Step(selectNetwork(Log(World(0), "selectNetwork", 0, mgr.step, NoData), NetA))

SubmitCredentials ==
  /\ Quiet
  /\ Step(submitCredentials(World(0)))

RetryConnection ==
  /\ Quiet
  /\ Step(retryConnection(World(0)))

DeleteNetworkAndReturn ==
  /\ Quiet
  /\ Step(deleteNetworkAndReturn(World(0)))

GoToNetworks ==
  /\ Quiet
  /\ Step(goToNetworks(Log(World(0), "goToNetworks", 0, mgr.step, NoData)))

GoToManage ==
  /\ Quiet
  /\ Step(goToManage(Log(World(0), "goToManage", 0, mgr.step, NoData)))

Reset ==
  /\ mgr.present
  /\ Step(ProvisioningManager_reset(Log(World(0), "call", 0, "mgr.reset", NoData)))

(***************************************************************************)
(* Actions of the wizard: the BLE library and the runtime                  *)
(***************************************************************************)
\* the device is connected, its characteristics are there and monitored
ConnectSucceeds ==
  /\ ble.connecting
  /\ Step(connectSucceeded(World(0)))

ConnectFails ==
  /\ ble.connecting
  /\ Step(connectFailed(World(0)))

\* a cancelDeviceConnection awaited by disconnect() settles, either way
CancelDone ==
  \E i \in DOMAIN ble.cancels :
    LET w == [World(0) EXCEPT !.ble.cancels = SubSeq(@, 1, i - 1) \o SubSeq(@, i + 1, Len(@))]
    IN Step(Defer(disconnectEnd(w), ble.cancels[i], Ok))

\* the delay of scanForDevices has elapsed
SettleDelayElapses ==
  /\ timers.settle > 0
  /\ Step(scanForDevicesAfterDelay([World(0) EXCEPT !.timers.settle = @ - 1]))

\* the callback given to bleManager.onDeviceDisconnected
UnexpectedDisconnect ==
  /\ ble.subscribed
  /\ Step(handleUnexpectedDisconnect(Log(World(0), "deviceDisconnected", 0, mgr.step, NoData)))

(***************************************************************************)
(* Actions of the service factory                                          *)
(***************************************************************************)
\* the configs a caller passes; << >> is no argument
Configs == { << >>, << "A" >>, << "B" >> }

CanConstruct == factory.transport # 0 \/ Len(factory.sets) < MaxServiceSets

Factory(f, name) ==
  /\ factory' = [f EXCEPT !.last = name]
  /\ UNCHANGED <<transport, wire, delivered, proto, writes, inflight, calls, poller, hist,
                 audit, emitted, timers, ble, mgr>>

InitializeServices ==
  \E config \in Configs :
    /\ CanConstruct
    /\ Factory(initializeServices(factory, config), "initializeServices")

GetTransport ==
  /\ CanConstruct
  /\ Factory(getTransport(factory), "getTransport")

GetProtocol ==
  /\ CanConstruct
  /\ Factory(getProtocol(factory), "getProtocol")

GetPoller ==
  /\ CanConstruct
  /\ Factory(getPoller(factory), "getPoller")

GetManager ==
  /\ CanConstruct
  /\ Factory(getManager(factory), "getManager")

DestroyServices == Factory(destroyServices(factory), "destroyServices")

\* the destroy() of the manager of set n, awaited by destroyServices, settles
ManagerDestroyed ==
  \E n \in DOMAIN factory.sets :
    /\ factory.sets[n].stage = "manager"
    /\ Factory(destroyServicesThen(factory, n), "teardown")

\* the destroy() of the transport of set n settles
TransportDestroyed ==
  \E n \in DOMAIN factory.sets :
    /\ factory.sets[n].stage = "transport"
    /\ Factory(destroyServicesEnd(factory, n), "teardown")

(***************************************************************************)
(* Specifications                                                          *)
(***************************************************************************)
NextFactory ==
  \/ InitializeServices
  \/ GetTransport
  \/ GetProtocol
  \/ GetPoller
  \/ GetManager
  \/ DestroyServices
  \/ ManagerDestroyed
  \/ TransportDestroyed

SpecFactory == InitFactory /\ [][NextFactory]_vars

NextFramer == Notify

NextChannel ==
  \/ SendCommand
  \/ WriteSucceeds
  \/ WriteFails
  \/ CommandTimeout
  \/ ResponseArrives
  \/ Destroy

NextPoller ==
  \/ StartPolling
  \/ StopPolling
  \/ PollOnce
  \/ PollerReset
  \/ PollerDestroy
  \/ PollTick
  \/ PollTimeout
  \/ WriteSucceeds
  \/ WriteFails
  \/ CommandTimeout
  \/ ResponseArrives

SpecFramer == InitFramer /\ [][NextFramer]_vars
SpecChannel == InitChannel /\ [][NextChannel]_vars

\* the step of CommandTimeout, told by what it does to the record of the
\* command whose timer is armed
CommandTimerFires ==
  /\ proto.timeoutTimer # 0
  /\ calls' = [calls EXCEPT ![proto.timeoutTimer].timedOut = TRUE,
                            ![proto.timeoutTimer].settles = 1,
                            ![proto.timeoutTimer].outcome = "timeout",
                            ![proto.timeoutTimer].by = proto.timeoutTimer]

\* the runtime runs the callback of an armed timer: a command timer that
\* stays armed fires
SpecChannelLive == InitChannel /\ [][NextChannel]_vars /\ WF_calls(CommandTimerFires)
SpecPoller == InitPoller /\ [][NextPoller]_vars

\* the step of PollTimeout for the timer of the running session, told by
\* what it does to the history of the session
PollTimerFires ==
  /\ timers.timeout
  /\ hist' = [hist EXCEPT !.timedOut = @ + 1]

\* the runtime runs the callback of an armed timer: the timer of the overall
\* timeout fires if it stays armed
SpecPollerLive == InitPoller /\ [][NextPoller]_vars /\ WF_hist(PollTimerFires)

NextWizard ==
  \/ ScanForDevices
  \/ ConnectToDevice
  \/ ScanWifiNetworks
  \/ SelectNetwork
  \/ SubmitCredentials
  \/ RetryConnection
  \/ DeleteNetworkAndReturn
  \/ GoToNetworks
  \/ GoToManage
  \/ Reset
  \/ ConnectSucceeds
  \/ ConnectFails
  \/ CancelDone
  \/ SettleDelayElapses
  \/ UnexpectedDisconnect
  \/ WriteSucceeds
  \/ WriteFails
  \/ CommandTimeout
  \/ ResponseArrives
  \/ PollTick
  \/ PollTimeout

SpecWizard == InitWizard /\ [][NextWizard]_vars

TypeOK ==
  /\ proto.busy \in BOOLEAN
  /\ proto.pendingResolve \in 0 .. Len(calls)
  /\ poller.polling \in BOOLEAN

(***************************************************************************)
(* Properties of the framer (SpecFramer)                                   *)
(***************************************************************************)
AllNotified == wire.pos = Len(wire.text)

\* C1: once every chunk of a valid JSON text ending in a closing brace has
\* been fed to one channel, whatever the split, that channel has emitted
\* exactly one message and it is the whole text.
C1_WholeMessageOnce ==
  (AllNotified /\ IsValidJson(wire.text) /\ endsWithBrace(wire.text))
    => delivered[wire.type] = << wire.text >>

(***************************************************************************)
(* Properties of the command channel (SpecChannel)                         *)
(***************************************************************************)
Ids == DOMAIN calls
LogIdx == DOMAIN emitted

\* the device's reply to call id has reached the transport
Answered(id) ==
  /\ id \notin inflight
  /\ \A wr \in writes : wr.id # id
  /\ ~calls[id].writeFailed

\* the last task was a sendCommand call made while a command was pending
CalledWhilePending(log) ==
  \E i \in DOMAIN log : log[i].ev = "sendCommand" /\ log[i].chan.slot # 0

\* C2: a sendCommand call made while a command is pending is rejected at
\* once with the Busy error, writes nothing, arms no timer, emits no
\* busy-change, and leaves the channel (so the first command's future) as it was.
C2_BusyRejectedNoEffect ==
  [][ CalledWhilePending(emitted') =>
        /\ Len(emitted') = 2
        /\ emitted'[2].ev = "settle" /\ emitted'[2].id = 0 /\ emitted'[2].arg = "busy"
        /\ \A i \in DOMAIN emitted' : emitted'[i].ev # "busyChanged"
        /\ proto' = proto
        /\ writes' = writes
        /\ inflight' = inflight
        /\ calls' = calls ]_vars

C2_Witness ==
  /\ CalledWhilePending(emitted)
  /\ proto.pendingResolve # 0
  /\ proto.timeoutTimer = proto.pendingResolve

\* C3: a command whose timeout fired has exactly one settlement, the timeout
\* error, whatever arrives afterwards.
C3_TimeoutIsOnlySettlement ==
  \A id \in Ids :
    calls[id].timedOut => (calls[id].settles = 1 /\ calls[id].outcome = "timeout")

\* the reply of a timed-out command has arrived (necessarily after the timeout)
C3_Witness == \E id \in Ids : calls[id].timedOut /\ Answered(id)

\* C4: the continuation of a command is invoked at most once, under every
\* interleaving of its reply, its timer and its write outcome.
C4_SettledAtMostOnce == \A id \in Ids : calls[id].settles <= 1

\* a command for which the timer fired and the write failed as well
C4_Witness ==
  \E id \in Ids : calls[id].timedOut /\ calls[id].writeFailed /\ calls[id].settles = 1

\* C5: a write failure settles only the command it belongs to, and only while
\* the generation captured at the write is still the live one.
C5_WriteFailureHitsOwnCommand ==
  /\ \A id \in Ids : calls[id].outcome = "writeFailed" => calls[id].by = id
  /\ \A i \in LogIdx :
       (emitted[i].ev = "settle" /\ emitted[i].arg = "writeFailed")
         => emitted[i].chan.nonce = calls[emitted[i].id].nonce + 1

\* the write of an already settled command fails while a newer command is pending
C5_Witness ==
  \E i \in LogIdx :
    /\ emitted[i].ev = "staleWriteError"
    /\ proto.pendingResolve # 0
    /\ proto.pendingResolve # emitted[i].id
    /\ calls[proto.pendingResolve].settles = 0

\* C6: when a continuation runs, on any settlement path, the generation has
\* been incremented, the timer cancelled, the slot emptied, busy set to
\* false and the busy-change already notified.
C6_IdleBeforeContinuation ==
  \A i \in LogIdx :
    (emitted[i].ev = "settle" /\ emitted[i].id # 0) =>
      /\ emitted[i].chan.busy = FALSE
      /\ emitted[i].chan.slot = 0
      /\ emitted[i].chan.timer = 0
      /\ emitted[i].chan.nonce > calls[emitted[i].id].nonce
      /\ \E j \in 1 .. (i - 1) : emitted[j].ev = "busyChanged" /\ emitted[j].arg = "false"

\* two commands settled on different paths, the last one just now
C6_Witness ==
  /\ \E i \in LogIdx : emitted[i].ev = "settle" /\ emitted[i].id # 0
  /\ \E a, b \in Ids :
       /\ calls[a].outcome \in {"timeout", "writeFailed"}
       /\ calls[b].outcome \in {"ok", "deviceError", "invalidResponse"}

Replies == hist.replies
SawThen(a, b) ==
  \E i, j \in DOMAIN Replies : i < j /\ Replies[i] = a /\ Replies[j] = b

C9_FailedIffConnectingThenDisconnected ==
  /\ [](hist.failed <= 1)
  /\ []((hist.failed = 1) <=> SawThen("connecting", "disconnected"))
  /\ []((\A i \in DOMAIN Replies : Replies[i] = "disconnected")
          => (hist.failed = 0 /\ hist.succeeded = 0))
  /\ [][ ( /\ Len(hist'.replies) = Len(hist.replies) + 1
            /\ \A i \in DOMAIN hist'.replies : hist'.replies[i] = "disconnected" )
          => ( /\ poller'.polling = poller.polling
               /\ poller'.pollInterval = poller.pollInterval
               /\ poller'.timeoutTimer = poller.timeoutTimer ) ]_vars

C9_Witness ==
  /\ Replies = << "disconnected", "connecting", "disconnected" >>
  /\ hist.failed = 1
  /\ poller.connectionFailed

\* C10: at the moment the listeners of succeeded or failed run, both timers
\* are cancelled and the poller is Idle.
C10_IdleWhenTerminalEmitted ==
  \A i \in LogIdx :
    emitted[i].ev \in {"connectionSucceeded", "connectionFailed"} =>
      /\ ~emitted[i].poll.polling
      /\ ~emitted[i].poll.pollInterval
      /\ ~emitted[i].poll.timeoutTimer

\* the last task was a call of stopPolling, reset or destroy on the poller
StopCalls == {"stopPolling", "reset", "destroy"}
StoppedBy(log) ==
  \E i \in DOMAIN log : log[i].ev = "call" /\ log[i].arg \in StopCalls

\* C11: once stopPolling, reset or destroy has been called, no timer the
\* poller created is armed any more, and none is while the poller is Idle:
\* no tick queries the device and no timed-out is emitted for the stopped
\* session.  A later session never runs next to a timer of an earlier one.
C11_NoTimerAfterStop ==
  /\ StoppedBy(emitted) => timers = NoTimers
  /\ ~poller.polling => timers = NoTimers
  /\ timers.leakedInterval = 0 /\ timers.leakedTimeout = 0
  /\ timers.interval = poller.pollInterval
  /\ timers.timeout => poller.timeoutTimer

\* a running session, with a status query outstanding, has just been stopped
C11_Witness ==
  /\ \E i \in LogIdx : /\ emitted[i].ev = "call" /\ emitted[i].arg \in StopCalls
                       /\ emitted[i].poll.polling
                       /\ emitted[i].poll.pollInterval
                       /\ emitted[i].poll.timeoutTimer
  /\ proto.pendingCommand = "get_status"

(***************************************************************************)
(* ProvisioningManager: what a task of the wizard does, computed from the  *)
(* state it starts in.  The log of the task is in the world it ends with.  *)
(***************************************************************************)
Has(log, ev, arg) == \E i \in DOMAIN log : log[i].ev = ev /\ log[i].arg = arg

Errors(log) == {i \in DOMAIN log : log[i].ev = "provisioningError" /\ log[i].arg # NULL}

ConnectionLost == "Bluetooth connection lost"

\* the task of UnexpectedDisconnect
LossOutcome == Drain(handleUnexpectedDisconnect(World(0)))

LossPossible == ble.subscribed /\ ble.connectionState # "disconnected"

\* C12: when the connection to the device is lost while the step is neither
\* welcome nor connect, the manager emits the connection-lost error and runs
\* reset (step welcome, no selection, no networks, poller stopped with its
\* timers cleared); at welcome and at connect the manager's step, selection
\* and list stay as they are and no error is emitted.
C12_LossResetsOrIsIgnored ==
  LossPossible =>
    LET d == LossOutcome
    IN IF mgr.step \notin {"welcome", "connect"}
       THEN /\ Has(d.emitted, "provisioningError", ConnectionLost)
            /\ Has(d.emitted, "reset", mgr.step)
            /\ Has(d.emitted, "provisioningReset", "")
            /\ d.mgr.step = "welcome"
            /\ d.mgr.selectedNetwork = << >>
            /\ d.mgr.scannedNetworks = << >>
            /\ ~d.poller.polling
            /\ ~d.timers.interval /\ ~d.timers.timeout
       ELSE /\ d.mgr = mgr
            /\ d.poller = poller
            /\ ~\E i \in DOMAIN d.emitted :
                  d.emitted[i].ev \in {"provisioningError", "reset", "stepChanged"}

\* the connection is lost on the connecting screen, with the poller running
\* and a status query under way
C12_Witness ==
  /\ LossPossible
  /\ proto.pendingCommand = "get_status"
  /\ mgr.step = "connecting"
  /\ mgr.selectedNetwork # << >>
  /\ mgr.scannedNetworks # << >>
  /\ poller.polling
  /\ LossOutcome.mgr.step = "welcome"
  /\ Has(LossOutcome.emitted, "provisioningError", ConnectionLost)

\* the connection is lost while the step is welcome
C12_IgnoredAtWelcome == LossPossible /\ mgr.step = "welcome" /\ LossOutcome.mgr = mgr

C12_IgnoredAtConnect == LossPossible /\ mgr.step = "connect" /\ LossOutcome.mgr = mgr

\* the task in which the cancelDeviceConnection awaited by the i-th
\* disconnect() under way settles: the task of CancelDone
CancelOutcome(i) ==
  LET w == [World(0) EXCEPT !.ble.cancels = SubSeq(@, 1, i - 1) \o SubSeq(@, i + 1, Len(@))]
  IN Drain(Defer(disconnectEnd(w), ble.cancels[i], Ok))

\* the task of Reset
ResetOutcome == Drain(ProvisioningManager_reset(World(0)))

Resets(log) == {i \in DOMAIN log : log[i].ev = "reset"}

\* C13: the Disconnected notification of the disconnect that reset() itself
\* asked for never makes the manager emit the connection-lost error and never
\* starts another reset, whatever the step was and whatever else of the
\* manager is under way: neither in the task of reset() when the transport
\* has no device to cancel, nor in the task in which the cancel settles.
C13_OwnDisconnectIsSilent ==
  /\ ~Has(ResetOutcome.emitted, "provisioningError", ConnectionLost)
  /\ Cardinality(Resets(ResetOutcome.emitted)) = 1
  /\ \A i \in DOMAIN ble.cancels :
       ble.cancels[i] = "reset" =>
         /\ ~Has(CancelOutcome(i).emitted, "provisioningError", ConnectionLost)
         /\ Resets(CancelOutcome(i).emitted) = {}

\* the poller is Idle and what it tracks is as ConnectionPoller.reset leaves it
PollerAtDefaults(w) ==
  /\ ~w.poller.polling
  /\ ~w.timers.interval /\ ~w.timers.timeout
  /\ w.poller.wifiState = "disconnected"
  /\ w.poller.wifiSsid = "" /\ w.poller.wifiIp = ""
  /\ w.poller.wifiRssi = "0" /\ w.poller.wifiQuality = "0"
  /\ ~w.poller.sawConnecting
  /\ ~w.poller.connectionFailed
  /\ w.poller.pollError = NULL

\* reset() has completed in the task that ends with the world d
AfterReset(d) ==
  /\ Has(d.emitted, "provisioningReset", "")
  /\ d.mgr.step = "welcome"
  /\ d.mgr.selectedNetwork = << >>
  /\ d.mgr.scannedNetworks = << >>
  /\ PollerAtDefaults(d)

\* C14: when reset() completes -- in its own task when the transport has no
\* device, otherwise in the task in which the cancel of the connection
\* settles -- the step is welcome, nothing is selected, the list of networks
\* is empty, the poller is Idle with what it tracks at the defaults, and
\* 'provisioningReset' has been emitted.
C14_ResetEndsAtDefaults ==
  /\ ~ble.device => AfterReset(ResetOutcome)
  /\ \A i \in DOMAIN ble.cancels :
       ble.cancels[i] = "reset" => AfterReset(CancelOutcome(i))

\* the command in the channel's slot is awaited by the code cont
PendingCont(cont) ==
  /\ proto.pendingResolve # 0
  /\ calls[proto.pendingResolve].cont = cont

\* the tasks that can settle the command in the slot, each as the world it
\* ends with: the tasks of ResponseArrives, CommandTimeout and WriteFails
SettleOutcomes ==
  { Drain(handleResponse([World(id) EXCEPT !.inflight = @ \ {id}], text)) :
      id \in (IF ble.subscribed /\ proto.subscribed THEN inflight ELSE {}),
      text \in DeviceReplies(proto.pendingCommand) }
  \cup { Drain(onCommandTimeout(Mark(World(id), id, "timedOut"))) :
          id \in {proto.timeoutTimer} \ {0} }
  \cup { Drain(onWriteError(Mark([World(wr.id) EXCEPT !.writes = @ \ {wr}], wr.id, "writeFailed"),
                            wr.nonce)) : wr \in writes }

\* the promise of the command was resolved / rejected in the task
SettledOk(d) == \E i \in DOMAIN d.emitted : d.emitted[i].ev = "settle" /\ d.emitted[i].arg = "ok"

Sent(d, cmd) == Has(d.emitted, "sendCommand", cmd)

\* the task of SubmitCredentials
SubmitOutcome == Drain(submitCredentials(World(0)))

\* the failure of a step of an operation: an error is emitted, the step and
\* the poller stay as they were
FailsQuietly(d) ==
  /\ Errors(d.emitted) # {}
  /\ d.mgr.step = mgr.step
  /\ d.poller = poller
  /\ d.timers = timers

\* C15: submitCredentials with a network selected sends add_network and
\* nothing else; connect is sent in the task in which add_network succeeds and
\* in no other; the step becomes connecting and the poller is started in the
\* task in which connect succeeds.  When add_network or connect fails (the
\* channel is busy, the write is refused or fails, the device answers with an
\* error, the timer fires), an error is emitted, the step stays and the
\* poller is not started.
C15_SubmitAddsThenConnects ==
  /\ (Quiet /\ mgr.selectedNetwork # << >>) =>
       LET d == SubmitOutcome
       IN /\ Sent(d, "add_network") /\ ~Sent(d, "connect")
          /\ IF d.proto.pendingCommand = "add_network" /\ ~proto.busy
             THEN /\ Errors(d.emitted) = {}
                  /\ d.mgr.step = mgr.step /\ d.poller = poller /\ d.timers = timers
             ELSE FailsQuietly(d) /\ d.proto.pendingCommand = proto.pendingCommand
  /\ PendingCont("submitCredentials:addNetwork") =>
       \A d \in SettleOutcomes :
         IF SettledOk(d) /\ mgr.selectedNetwork # << >>
         THEN /\ d.proto.pendingCommand = "connect"
              /\ Errors(d.emitted) = {}
              /\ d.mgr.step = mgr.step /\ d.poller = poller /\ d.timers = timers
         ELSE FailsQuietly(d) /\ ~Sent(d, "connect") /\ d.proto.pendingCommand = NULL
  /\ PendingCont("submitCredentials:connectWifi") =>
       \A d \in SettleOutcomes :
         IF SettledOk(d)
         THEN /\ d.mgr.step = "connecting"
              /\ d.poller.polling /\ d.timers.interval /\ d.timers.timeout
              /\ Errors(d.emitted) = {}
         ELSE FailsQuietly(d)

\* on the credentials screen both commands were sent, and the reply to
\* connect starts the poller and moves the wizard to connecting
C15_Witness ==
  /\ mgr.step = "credentials"
  /\ ~poller.polling
  /\ PendingCont("submitCredentials:connectWifi")
  /\ \E d \in SettleOutcomes :
       /\ SettledOk(d)
       /\ d.mgr.step = "connecting"
       /\ d.poller.polling
       /\ d.proto.pendingCommand = "get_status"

\* the wizard after that reply
C15_Started ==
  /\ mgr.step = "connecting" /\ poller.polling
  /\ proto.pendingCommand = "get_status" /\ proto.commandNonce = 3 /\ Len(calls) = 3

NoCommandSent(d) ==
  /\ ~\E i \in DOMAIN d.emitted : d.emitted[i].ev = "sendCommand"
  /\ d.calls = calls /\ d.proto = proto /\ d.writes = writes /\ d.inflight = inflight

\* C16: submitCredentials with no network selected emits the error
\* "No network selected", leaves the step (and the rest of the manager's
\* state) as it was, sends no command and does not touch the poller.
C16_SubmitWithoutSelection ==
  (Quiet /\ mgr.selectedNetwork = << >>) =>
    LET d == SubmitOutcome
    IN /\ Has(d.emitted, "provisioningError", "No network selected")
       /\ d.mgr = mgr
       /\ NoCommandSent(d)
       /\ d.poller = poller /\ d.timers = timers

\* connected, on the list of networks, nothing selected, the channel free
C16_Witness ==
  /\ Quiet /\ mgr.selectedNetwork = << >>
  /\ mgr.step = "networks" /\ mgr.scannedNetworks # << >>
  /\ ble.connectionState = "connected" /\ ~proto.busy
  /\ Has(SubmitOutcome.emitted, "provisioningError", "No network selected")

\* the task of PollTimeout
PollTimeoutOutcome == Drain(handleTimeout([World(0) EXCEPT !.timers.timeout = FALSE]))

\* the tasks in which the poller can emit an event
PollerOutcomes ==
  (IF PendingCont("doPoll") THEN SettleOutcomes ELSE {})
  \cup (IF timers.timeout THEN {PollTimeoutOutcome} ELSE {})

Emits(d, ev) == \E i \in DOMAIN d.emitted : d.emitted[i].ev = ev

\* C17: when the poller emits 'connectionFailed' or 'connectionTimedOut'
\* while the step is connecting, the manager emits the matching error, which
\* invites to retry or to go back, and the step is still connecting at the
\* end of the task.
C17_PollerFailureKeepsConnecting ==
  mgr.step = "connecting" =>
    \A d \in PollerOutcomes :
      /\ Emits(d, "connectionFailed") =>
           /\ Has(d.emitted, "provisioningError", "WiFi connection failed. You can retry or go back.")
           /\ d.mgr.step = "connecting"
      /\ Emits(d, "connectionTimedOut") =>
           /\ Has(d.emitted, "provisioningError", "WiFi connection timed out. You can retry or go back.")
           /\ d.mgr.step = "connecting"

\* on the connecting screen the device said connecting and now answers a
\* status query with disconnected
C17_Witness ==
  /\ mgr.step = "connecting"
  /\ poller.polling /\ poller.sawConnecting
  /\ PendingCont("doPoll")
  /\ \E d \in SettleOutcomes :
       /\ Emits(d, "connectionFailed")
       /\ Errors(d.emitted) # {}
       /\ d.mgr.step = "connecting" /\ ~d.poller.polling

\* on the connecting screen the poller's timer fires
C17_TimedOut ==
  /\ mgr.step = "connecting" /\ timers.timeout /\ proto.pendingCommand = "get_status"
  /\ Emits(PollTimeoutOutcome, "connectionTimedOut")
  /\ Errors(PollTimeoutOutcome.emitted) # {}

\* the task of RetryConnection
RetryOutcome == Drain(retryConnection(World(0)))

\* C18: retryConnection with a network selected resets the poller and sends
\* connect; polling is started again (timers armed, a first status query
\* sent) in the task in which connect succeeds, and in no case is the step
\* changed.  When connect fails an error is emitted and polling is not
\* started.  With no network selected the error "No network selected" is
\* emitted, nothing is sent, and the poller and the step are left alone.
C18_RetryReconnects ==
  /\ (Quiet /\ mgr.selectedNetwork # << >>) =>
       LET d == RetryOutcome
       IN /\ Sent(d, "connect")
          /\ PollerAtDefaults(d)
          /\ d.mgr.step = mgr.step
          /\ IF d.proto.pendingCommand = "connect" /\ ~proto.busy
             THEN Errors(d.emitted) = {}
             ELSE Errors(d.emitted) # {} /\ d.proto.pendingCommand = proto.pendingCommand
  /\ PendingCont("retryConnection") =>
       \A d \in SettleOutcomes :
         /\ d.mgr.step = mgr.step
         /\ IF SettledOk(d)
            THEN /\ d.poller.polling /\ d.timers.interval /\ d.timers.timeout
                 /\ Sent(d, "get_status")
                 /\ Errors(d.emitted) = {}
            ELSE /\ Errors(d.emitted) # {}
                 /\ d.poller = poller /\ d.timers = timers
                 /\ ~Sent(d, "get_status")
  /\ (Quiet /\ mgr.selectedNetwork = << >>) =>
       LET d == RetryOutcome
       IN /\ Has(d.emitted, "provisioningError", "No network selected")
          /\ d.mgr = mgr
          /\ NoCommandSent(d)
          /\ d.poller = poller /\ d.timers = timers

\* on the connecting screen, after a failure, the retry's connect is answered
C18_Witness ==
  /\ mgr.step = "connecting"
  /\ ~poller.polling
  /\ PendingCont("retryConnection")
  /\ \E d \in SettleOutcomes :
       /\ SettledOk(d)
       /\ d.poller.polling
       /\ d.proto.pendingCommand = "get_status"
       /\ d.mgr.step = "connecting"

\* retryConnection is called while the poller is running
C18_ResetsRunningPoller ==
  /\ Quiet /\ mgr.selectedNetwork # << >> /\ mgr.step = "connecting"
  /\ poller.polling /\ poller.sawConnecting /\ ~proto.busy
  /\ RetryOutcome.proto.pendingCommand = "connect"
  /\ PollerAtDefaults(RetryOutcome)

C18_WithoutSelection ==
  /\ Quiet /\ mgr.selectedNetwork = << >> /\ ble.connectionState = "connected"
  /\ Has(RetryOutcome.emitted, "provisioningError", "No network selected")

\* the task of ConnectToDevice, and the task of ConnectFails
ConnectOutcome == Drain(connectToDevice(World(0)))

ConnectFailsOutcome == Drain(connectFailed(World(0)))

\* C19: connectToDevice has set the step to connect when it calls the
\* transport's connect(), and the step is connect while the connection is
\* attempted; when the attempt fails, the error is emitted, the step is
\* welcome at the end of the task and no scan command (nor any other) is sent.
C19_ConnectThenRevertOnFailure ==
  /\ Quiet =>
       LET d == ConnectOutcome
       IN /\ Has(d.emitted, "transportConnect", "connect")
          /\ ~\E i \in DOMAIN d.emitted :
                d.emitted[i].ev = "transportConnect" /\ d.emitted[i].arg # "connect"
          /\ d.mgr.step = "connect"
          /\ d.ble.connecting
  /\ ble.connecting =>
       LET d == ConnectFailsOutcome
       IN /\ Has(d.emitted, "provisioningError", "Connection failed")
          /\ d.mgr.step = "welcome"
          /\ ~Sent(d, "scan")
          /\ NoCommandSent(d)

\* the connection is being attempted from the connect screen, and its failure
\* brings the wizard back to welcome
C19_Witness ==
  /\ mgr.step = "connect"
  /\ ble.connecting /\ ble.connectionState = "connecting"
  /\ ConnectFailsOutcome.mgr.step = "welcome"
  /\ Has(ConnectFailsOutcome.emitted, "provisioningError", "Connection failed")
  /\ Has(ConnectFailsOutcome.emitted, "stepChanged", "welcome")

\* strongest signal first
SortedByRssi(list) ==
  \A i, j \in DOMAIN list : i < j => list[i].rssi >= list[j].rssi

Count(list, n) == Cardinality({i \in DOMAIN list : list[i] = n})

\* the same networks, each as many times
SameNetworks(a, b) ==
  /\ Len(a) = Len(b)
  /\ \A i \in DOMAIN a : Count(a, a[i]) = Count(b, a[i])

\* the task of ResponseArrives for the reply text to command id
ReplyOutcome(id, text) ==
  Drain(handleResponse([World(id) EXCEPT !.inflight = @ \ {id}], text))

ScanReplies ==
  IF PendingCont("scanWifiNetworks") /\ ble.subscribed /\ proto.subscribed
  THEN inflight \X DeviceReplies("scan") ELSE {}

\* C20: the list of networks the manager stores is at all times ordered by
\* non-increasing rssi; in the task in which a scan succeeds, the stored list
\* becomes the networks of the device's reply (all of them, nothing else) in
\* that order, and the step is networks.
C20_ScannedListSorted ==
  /\ SortedByRssi(mgr.scannedNetworks)
  /\ \A r \in ScanReplies :
       LET d == ReplyOutcome(r[1], r[2])
           reply == JSONParse(r[2])
       IN SettledOk(d) =>
            /\ SameNetworks(d.mgr.scannedNetworks, reply.data.networks)
            /\ SortedByRssi(d.mgr.scannedNetworks)
            /\ d.mgr.step = "networks"

\* the scan started after the connection is answered with three networks that
\* are not in order
C20_Witness ==
  /\ mgr.step = "connect"
  /\ mgr.scannedNetworks = << >>
  /\ << proto.pendingResolve, TextScanThree >> \in ScanReplies
  /\ ~SortedByRssi(JSONParse(TextScanThree).data.networks)
  /\ LET d == ReplyOutcome(proto.pendingResolve, TextScanThree)
     IN d.mgr.scannedNetworks = << NetB, NetC, NetA >> /\ d.mgr.step = "networks"

\* the wizard after that reply
C20_Stored ==
  /\ mgr.step = "networks" /\ mgr.scannedNetworks = << NetB, NetC, NetA >>
  /\ proto.commandNonce = 1 /\ Len(calls) = 1

\* the task of ConnectSucceeds
ConnectSucceedsOutcome == Drain(connectSucceeded(World(0)))

\* the promise of the command was rejected in the task
SettledFailed(d) ==
  \E i \in DOMAIN d.emitted : d.emitted[i].ev = "settle" /\ d.emitted[i].arg # "ok"

\* C21: when the scan that connectToDevice starts after the connection has
\* succeeded fails -- refused at once because the channel is busy or the write
\* is refused, or later by an error reply, a failed write or the timer -- an
\* error is emitted and the step is networks at the end of the task, neither
\* welcome nor connect.
C21_ScanFailureEndsAtNetworks ==
  /\ ble.connecting =>
       LET d == ConnectSucceedsOutcome
       IN /\ Sent(d, "scan")
          /\ SettledFailed(d) => (Errors(d.emitted) # {} /\ d.mgr.step = "networks")
          /\ ~SettledFailed(d) => (Errors(d.emitted) = {} /\ d.proto.pendingCommand = "scan")
  /\ PendingCont("scanWifiNetworks") =>
       \A d \in SettleOutcomes :
         SettledFailed(d) =>
           /\ Errors(d.emitted) # {}
           /\ d.mgr.step = "networks"
           /\ d.mgr.scannedNetworks = mgr.scannedNetworks

\* on the connect screen, the scan started after the connection is answered
\* with an error
C21_Witness ==
  /\ mgr.step = "connect"
  /\ ble.connectionState = "connected"
  /\ PendingCont("scanWifiNetworks")
  /\ \E d \in SettleOutcomes :
       /\ SettledFailed(d)
       /\ Has(d.emitted, "provisioningError", "Network not found")
       /\ Has(d.emitted, "stepChanged", "networks")
       /\ d.mgr.step = "networks"

\* the connection succeeds while the channel is busy with a status query
C21_RefusedAtOnce ==
  /\ ble.connecting
  /\ SettledFailed(ConnectSucceedsOutcome)
  /\ ConnectSucceedsOutcome.mgr.step = "networks"

Completions(log) == {i \in DOMAIN log : log[i].ev = "provisioningComplete"}

\* C22: in a task in which the poller emits 'connectionSucceeded', the step
\* is success at the end and the manager emits 'provisioningComplete' exactly
\* once, with the ssid and the ip of the status the poller emitted and the
\* name and the id of the device the transport is connected to; in a task in
\* which the poller emits no 'connectionSucceeded', the manager emits no
\* 'provisioningComplete'.
C22_SucceededCompletesOnce ==
  \A d \in PollerOutcomes :
    /\ \A i \in DOMAIN d.emitted :
         d.emitted[i].ev = "connectionSucceeded" =>
           /\ d.mgr.step = "success"
           /\ Cardinality(Completions(d.emitted)) = 1
           /\ ble.connectedDeviceInfo = << DeviceInfo >>
           /\ \A j \in Completions(d.emitted) :
                /\ j > i
                /\ d.emitted[j].step = "success"
                /\ d.emitted[j].status =
                     [success |-> TRUE,
                      ssid |-> d.emitted[i].status.ssid,
                      ip |-> d.emitted[i].status.ip,
                      deviceName |-> DeviceInfo.name,
                      deviceId |-> DeviceInfo.id]
    /\ ~Emits(d, "connectionSucceeded") => Completions(d.emitted) = {}

\* on the connecting screen a status query is answered with connected
C22_Witness ==
  /\ mgr.step = "connecting"
  /\ poller.polling
  /\ PendingCont("doPoll")
  /\ \E d \in SettleOutcomes :
       /\ Emits(d, "connectionSucceeded")
       /\ Has(d.emitted, "stepChanged", "success")
       /\ d.mgr.step = "success"
       /\ \E j \in Completions(d.emitted) :
            d.emitted[j].status.ssid = "Net" /\ d.emitted[j].status.ip = "10.0.0.2"

\* the wizard after that reply
C22_AtSuccess == mgr.step = "success" /\ ~poller.polling /\ poller.wifiState = "connected"

\* the task of DeleteNetworkAndReturn
DeleteOutcome == Drain(deleteNetworkAndReturn(World(0)))

\* deleteNetworkAndReturn has gone on to the scan in the task that ends with d:
\* nothing is selected, the scan command was handed to the channel, and it is
\* either pending or was refused at once, which ends the operation with an
\* error at the step networks
WentOnToScan(d) ==
  /\ d.mgr.selectedNetwork = << >>
  /\ Has(d.emitted, "selectedNetworkChanged", NULL)
  /\ Sent(d, "scan")
  /\ \/ d.proto.pendingCommand = "scan" /\ Errors(d.emitted) = {}
     \/ d.mgr.step = "networks" /\ Errors(d.emitted) # {}

\* C23: deleteNetworkAndReturn resets the poller; with a network selected it
\* sends del_network and goes on to the scan in the task in which del_network
\* is settled, whether it succeeded or failed, and a failed deletion emits no
\* error; with no network selected it goes on to the scan at once.  The
\* selection stays empty while the scan is awaited, and in the task in which
\* the scan is settled, either way, the step ends at networks.
C23_DeleteThenScan ==
  /\ [](Quiet =>
         LET d == DeleteOutcome
         IN /\ PollerAtDefaults(d)
            /\ IF mgr.selectedNetwork # << >>
               THEN /\ Sent(d, "del_network")
                    /\ \/ /\ d.proto.pendingCommand = "del_network" /\ ~proto.busy
                          /\ ~Sent(d, "scan")
                          /\ d.mgr.selectedNetwork = mgr.selectedNetwork
                          /\ d.mgr.step = mgr.step
                       \/ SettledFailed(d) /\ WentOnToScan(d)
               ELSE ~Sent(d, "del_network") /\ WentOnToScan(d))
  /\ [](PendingCont("deleteNetworkAndReturn") =>
         \A d \in SettleOutcomes : WentOnToScan(d))
  /\ [](PendingCont("scanWifiNetworks") =>
         \A d \in SettleOutcomes :
           d.mgr.step = "networks" /\ d.mgr.selectedNetwork = mgr.selectedNetwork)
  /\ [][ (PendingCont("scanWifiNetworks") /\ mgr.selectedNetwork = << >>)
           => mgr'.selectedNetwork = << >> ]_vars

\* on the connecting screen, with a network selected, the deletion fails and
\* the scan is sent all the same
C23_Witness ==
  /\ mgr.step = "connecting"
  /\ mgr.selectedNetwork # << >>
  /\ PendingCont("deleteNetworkAndReturn")
  /\ \E d \in SettleOutcomes :
       /\ SettledFailed(d)
       /\ d.proto.pendingCommand = "scan"
       /\ d.mgr.selectedNetwork = << >>
       /\ Errors(d.emitted) = {}

\* that scan is answered, and the operation ends at the step networks
C23_Completes ==
  /\ mgr.step = "connecting"
  /\ mgr.selectedNetwork = << >>
  /\ PendingCont("scanWifiNetworks")
  /\ \E d \in SettleOutcomes : SettledOk(d) /\ d.mgr.step = "networks"

\* deleteNetworkAndReturn is called while the poller is running
C23_ResetsRunningPoller ==
  /\ Quiet /\ poller.polling /\ poller.sawConnecting /\ ~proto.busy
  /\ mgr.selectedNetwork # << >>
  /\ DeleteOutcome.proto.pendingCommand = "del_network"
  /\ PollerAtDefaults(DeleteOutcome)

\* the events of the manager
ManagerEvents ==
  {"stepChanged", "provisioningError", "scannedNetworksUpdated", "selectedNetworkChanged",
   "provisioningComplete", "provisioningReset", "wifiStatusUpdated"}

\* the first event the manager emits in the task is 'provisioningError' with
\* null, and nothing was handed to the channel or the transport before it
ClearsErrorAtStart(log) ==
  \E i \in DOMAIN log :
    /\ log[i].ev = "provisioningError" /\ log[i].arg = NULL
    /\ \A j \in 1 .. (i - 1) :
         log[j].ev \notin ManagerEvents \cup {"sendCommand", "transportConnect", "connectionStateChanged"}

\* the value of the store's provisioningError after the task, when it was
\* prior before: the argument of the last 'provisioningError', or null when
\* a 'provisioningReset' came after it (the store goes to its initial state)
RECURSIVE StoreError(_, _)
StoreError(prior, log) ==
  IF log = << >> THEN prior
  ELSE IF log[Len(log)].ev = "provisioningError" THEN log[Len(log)].arg
  ELSE IF log[Len(log)].ev = "provisioningReset" THEN NULL
  ELSE StoreError(prior, SubSeq(log, 1, Len(log) - 1))

\* the tasks of the operations that call clearError
ClearingCalls ==
  { Drain(scanForDevices(World(0))),
    Drain(connectToDevice(World(0))),
    Drain(scanWifiNetworks(World(0))),
    Drain(submitCredentials(World(0))),
    Drain(retryConnection(World(0))) }

\* the tasks of the other operations the user interface calls
OtherCalls ==
  { Drain(selectNetwork(World(0), NetA)),
    Drain(deleteNetworkAndReturn(World(0))),
    Drain(goToNetworks(World(0))),
    Drain(goToManage(World(0))),
    Drain(ProvisioningManager_reset(World(0))) }

\* the operations that call clearError do so before anything else
C24_ClearingCallsClear ==
  Quiet => \A d \in ClearingCalls :
             ClearsErrorAtStart(d.emitted) /\ StoreError("earlier", d.emitted) # "earlier"

\* C24: the task of every operation the user interface calls on the manager
\* begins by emitting 'provisioningError' with null, so that an error emitted
\* earlier is not the current one any more once the operation has begun.
C24_EveryCallClearsError ==
  Quiet => \A d \in ClearingCalls \cup OtherCalls :
             ClearsErrorAtStart(d.emitted) /\ StoreError("earlier", d.emitted) # "earlier"

\* selectNetwork on the list of networks leaves an earlier error current
C24_SelectKeepsError ==
  /\ Quiet /\ mgr.step = "networks" /\ mgr.scannedNetworks # << >>
  /\ StoreError("earlier", Drain(selectNetwork(World(0), NetA)).emitted) = "earlier"

(***************************************************************************)
(* ConnectionPoller: what a task of the poller does, computed from the     *)
(* state it starts in (SpecPoller).                                        *)
(***************************************************************************)
Sends(log) == {i \in DOMAIN log : log[i].ev = "sendCommand"}

\* the task of PollOnce
PollOnceOutcome == Drain(pollOnce(World(0)))

\* the poller is Polling or Idle in d as it is now, with the same timers
SamePolling(d) ==
  /\ d.poller.polling = poller.polling
  /\ d.poller.pollInterval = poller.pollInterval
  /\ d.poller.timeoutTimer = poller.timeoutTimer
  /\ d.timers = timers

\* C25: pollOnce calls getStatus once -- one get_status is handed to the
\* channel, which sends it when it is free and rejects it when it is busy --
\* and neither the call nor the task in which that query is settled arms or
\* cancels a timer, changes Polling / Idle or sends another query, whether
\* the poller is Idle or Polling.
C25_PollOnceIsOneQuery ==
  /\ poller.listening =>
       LET d == PollOnceOutcome
       IN /\ Cardinality(Sends(d.emitted)) = 1
          /\ Sent(d, "get_status")
          /\ SamePolling(d)
          /\ IF proto.busy
             THEN d.calls = calls /\ d.writes = writes /\ d.proto = proto
             ELSE /\ Len(d.calls) = Len(calls) + 1
                  /\ d.proto.pendingCommand = "get_status"
                  /\ Cardinality(d.writes) = Cardinality(writes) + 1
  /\ PendingCont("pollOnce") =>
       \A d \in SettleOutcomes :
         /\ SamePolling(d)
         /\ Sends(d.emitted) = {}
         /\ d.poller.sawConnecting = poller.sawConnecting
         /\ d.poller.connectionFailed = poller.connectionFailed
         /\ ~Emits(d, "connectionSucceeded") /\ ~Emits(d, "connectionFailed")

\* while the poller is Polling, the query of a pollOnce is answered with
\* connected, and the poller is still Polling
C25_Witness ==
  /\ poller.polling /\ timers.interval /\ timers.timeout
  /\ PendingCont("pollOnce")
  /\ \E d \in SettleOutcomes :
       /\ SettledOk(d)
       /\ d.poller.wifiState = "connected"
       /\ d.poller.polling /\ d.timers.interval /\ d.timers.timeout

\* pollOnce is called while the poller is Idle, and sends its query
C25_WhileIdle ==
  /\ poller.listening /\ ~poller.polling /\ ~proto.busy /\ Len(calls) > 0
  /\ PollOnceOutcome.proto.pendingCommand = "get_status"
  /\ ~PollOnceOutcome.poller.polling /\ PollOnceOutcome.timers = NoTimers

Terminal == {"connectionSucceeded", "connectionFailed", "connectionTimedOut"}

NoTerminal(d) == \A i \in DOMAIN d.emitted : d.emitted[i].ev \notin Terminal

\* the task of the interval's callback, run in the world d
TickAfter(d) == Drain(doPoll([d EXCEPT !.emitted = << >>, !.trigger = 0]))

\* the task of PollTick
TickOutcome == Drain(doPoll(World(0)))

\* the query of doPoll failed in the task that ends with d: 'pollError' is
\* emitted with the message, which is stored, and the session goes on
ToleratedIn(d) ==
  /\ Emits(d, "pollError")
  /\ d.poller.pollError # NULL
  /\ Has(d.emitted, "pollError", d.poller.pollError)
  /\ SamePolling(d)
  /\ d.poller.polling /\ d.timers.interval /\ d.timers.timeout
  /\ NoTerminal(d)

\* C26: while the poller is Polling, a status query of doPoll that fails --
\* by an error reply, a text that is no JSON, a failed write, the command's
\* timer, or because the channel was busy at the tick -- makes the poller emit
\* 'pollError' and nothing terminal, and leaves it Polling with both timers
\* armed; the callback of the interval then hands another get_status to the
\* channel, which sends it.
C26_PollErrorTolerated ==
  /\ (poller.polling /\ PendingCont("doPoll")) =>
       \A d \in SettleOutcomes :
         SettledFailed(d) =>
           /\ ToleratedIn(d)
           /\ ~d.proto.busy
           /\ LET t == TickAfter(d)
              IN /\ Sent(t, "get_status")
                 /\ t.proto.pendingCommand = "get_status"
                 /\ Len(t.calls) = Len(d.calls) + 1
  /\ (poller.polling /\ timers.interval /\ proto.busy) =>
       LET d == TickOutcome
       IN SettledFailed(d) /\ ToleratedIn(d) /\ d.proto = proto

\* the device answers a status query of a running session with an error
C26_Witness ==
  /\ poller.polling /\ timers.interval /\ timers.timeout
  /\ PendingCont("doPoll")
  /\ \E d \in SettleOutcomes :
       /\ Has(d.emitted, "pollError", "Network not found")
       /\ d.poller.polling /\ d.timers.interval /\ d.timers.timeout
       /\ TickAfter(d).proto.pendingCommand = "get_status"

\* the session after a failed query, with the query of the next tick under way
C26_NextTickQueries ==
  /\ poller.polling /\ poller.pollError # NULL
  /\ PendingCont("doPoll") /\ Len(calls) >= 2

TimedOuts(log) == {i \in DOMAIN log : log[i].ev = "connectionTimedOut"}

WifiStates == {"disconnected", "connecting", "connected"}

\* C27: when the callback of the absolute timeout runs while the poller is
\* Polling, whatever state the last status carried, the poller is Idle at the
\* end of the task, neither timer is armed and both handles are null,
\* 'connectionTimedOut' has been emitted exactly once (the poller being Idle
\* already) and nothing else terminal; what the poller tracks is left alone
\* and no query is sent.
C27_TimeoutStopsAndEmitsOnce ==
  (poller.polling /\ timers.timeout) =>
    LET d == PollTimeoutOutcome
    IN /\ poller.wifiState \in WifiStates
       /\ ~d.poller.polling
       /\ ~d.poller.pollInterval /\ ~d.poller.timeoutTimer
       /\ d.timers = NoTimers
       /\ Cardinality(TimedOuts(d.emitted)) = 1
       /\ \A i \in TimedOuts(d.emitted) : ~d.emitted[i].poll.polling
       /\ ~Emits(d, "connectionSucceeded") /\ ~Emits(d, "connectionFailed")
       /\ Sends(d.emitted) = {}
       /\ d.poller.wifiState = poller.wifiState
       /\ d.poller.sawConnecting = poller.sawConnecting
       /\ d.proto = proto

\* the timer fires in a session that has seen connecting, a query under way
C27_Witness ==
  /\ poller.polling /\ timers.timeout /\ timers.interval
  /\ poller.wifiState = "connecting" /\ poller.sawConnecting
  /\ PendingCont("doPoll")
  /\ ~PollTimeoutOutcome.poller.polling
  /\ Emits(PollTimeoutOutcome, "connectionTimedOut")

\* the timer fires when the last status, of a pollOnce, said connected
C27_AfterConnected ==
  /\ poller.polling /\ timers.timeout /\ poller.wifiState = "connected"
  /\ Emits(PollTimeoutOutcome, "connectionTimedOut")

\* the timer fires when the last status said disconnected
C27_AfterDisconnected ==
  /\ poller.polling /\ timers.timeout /\ poller.wifiState = "disconnected" /\ Len(calls) >= 2
  /\ Emits(PollTimeoutOutcome, "connectionTimedOut")

\* the poller after the timer fired
C27_TimedOut == ~poller.polling /\ Emits([emitted |-> emitted], "connectionTimedOut")

\* the task of StartPolling
StartOutcome == Drain(startPolling(World(0)))

\* C28: startPolling called while the poller is Polling changes nothing: the
\* timers and the handles are as before (none is created), no get_status is
\* handed to the channel, nothing is emitted, and sawConnecting,
\* connectionFailed, pollError and the rest of what the poller tracks keep
\* their values.
C28_StartWhilePollingIsNoOp ==
  poller.polling =>
    LET d == StartOutcome
    IN /\ d.poller = poller
       /\ d.timers = timers
       /\ d.emitted = << >>
       /\ d.proto = proto /\ d.calls = calls /\ d.writes = writes /\ d.inflight = inflight

\* a running session that has seen connecting and a failed query, the channel
\* free: a second startPolling would otherwise send a query and forget both
C28_Witness ==
  /\ poller.polling /\ timers.interval /\ timers.timeout
  /\ poller.sawConnecting /\ poller.pollError # NULL
  /\ ~proto.busy
  /\ ENABLED StartPolling
  /\ StartOutcome.poller = poller

\* startPolling called while the poller is Idle starts a session
C28_StartsWhenIdle ==
  /\ ~poller.polling /\ poller.pollError # NULL /\ ~proto.busy
  /\ StartOutcome.poller.polling /\ StartOutcome.poller.pollError = NULL
  /\ StartOutcome.proto.pendingCommand = "get_status"

\* C29: between any two tasks the poller is Polling exactly when its interval
\* and its absolute timeout are both armed, and when it is Idle neither is
\* armed (nor is a timer of an earlier session); the two handles tell the
\* same.  The listeners and the channel, when the poller calls them, see the
\* flag and the handles agree as well.
C29_PollingIffTimersArmed ==
  /\ poller.polling <=> (timers.interval /\ timers.timeout)
  /\ ~poller.polling => (~timers.interval /\ ~timers.timeout)
  /\ timers.leakedInterval = 0 /\ timers.leakedTimeout = 0
  /\ poller.pollInterval = timers.interval
  /\ poller.timeoutTimer = timers.timeout
  /\ \A i \in LogIdx :
       /\ emitted[i].poll.polling <=> (emitted[i].poll.pollInterval /\ emitted[i].poll.timeoutTimer)
       /\ ~emitted[i].poll.polling =>
            (~emitted[i].poll.pollInterval /\ ~emitted[i].poll.timeoutTimer)

\* a session is running with both timers armed, and a query was handed to
\* the channel while it was, after an earlier query
C29_Witness ==
  /\ poller.polling /\ timers.interval /\ timers.timeout
  /\ Len(calls) >= 2
  /\ \E i \in LogIdx : emitted[i].ev = "sendCommand" /\ emitted[i].poll.polling
  /\ hist = NoHist

\* the poller is Idle again after a session that succeeded
C29_IdleAfterSuccess ==
  /\ ~poller.polling /\ timers = NoTimers
  /\ hist.succeeded = 1 /\ Emits([emitted |-> emitted], "connectionSucceeded")

(***************************************************************************)
(* The command channel: a response with nothing pending (SpecChannel)      *)
(***************************************************************************)
NothingPending == proto.pendingResolve = 0 /\ proto.pendingReject = 0

\* C30: a response that reaches the channel while no command is pending,
\* whatever its text, leaves busy, the generation, the slot and the timer as
\* they were, settles no call, and makes the channel emit neither
\* 'busyChanged' nor 'commandError' (nor anything else).
C30_StrayResponseIgnored ==
  (NothingPending /\ proto.subscribed /\ ble.subscribed) =>
    \A id \in inflight, text \in ResponseTexts :
      LET d == ReplyOutcome(id, text)
      IN /\ d.proto = proto
         /\ d.calls = calls
         /\ d.writes = writes
         /\ Len(d.emitted) = 1 /\ d.emitted[1].ev = "strayResponse"
         /\ ~Emits(d, "busyChanged") /\ ~Emits(d, "commandError") /\ ~Emits(d, "settle")

\* the reply of a command that timed out arrives when nothing is pending
C30_Witness ==
  /\ NothingPending /\ proto.subscribed /\ ~proto.busy
  /\ proto.commandNonce > 0
  /\ \E id \in inflight :
       /\ calls[id].timedOut
       /\ Emits(ReplyOutcome(id, TextError), "strayResponse")

\* the channel after that reply
C30_Ignored ==
  /\ Emits([emitted |-> emitted], "strayResponse")
  /\ NothingPending /\ ~proto.busy /\ proto.timeoutTimer = 0

(***************************************************************************)
(* Properties of the service factory (SpecFactory)                         *)
(***************************************************************************)
ServicesExist == factory.transport # 0

GetterCalls == {"getTransport", "getProtocol", "getPoller", "getManager"}

C31_NewSetAfterDestroy ==
  /\ factory.last = "getManager" /\ factory.manager = 2
  /\ factory.sets[1].stage # "live"

(***************************************************************************)
(* The command channel: whose reply settles a command (SpecChannel)        *)
(***************************************************************************)
ByReply == {"ok", "deviceError", "invalidResponse"}

\* C32: a command that is resolved or rejected by a response is settled by
\* the reply to itself; the reply to a command that its timeout has settled
\* settles no command sent afterwards.
C32_ReplySettlesOwnCommand ==
  \A id \in Ids :
    calls[id].outcome \in ByReply =>
      /\ calls[id].by = id
      /\ ~calls[calls[id].by].timedOut

\* the late reply to a command that timed out has settled the next command
C32_LateReplySettlesNext ==
  \E a, b \in Ids :
    /\ a < b
    /\ calls[a].timedOut /\ calls[a].outcome = "timeout"
    /\ calls[b].outcome \in ByReply /\ calls[b].by = a
    /\ calls[a].cmd = "get_status" /\ calls[b].cmd = "scan"

(***************************************************************************)
(* The terminal notifications of one polling session (SpecPoller)          *)
(***************************************************************************)
Terminals(h) == h.succeeded + h.failed + h.timedOut

\* C33: a polling session emits at most one of succeeded, failed and
\* timed-out, and a task that begins with the poller Idle emits none of
\* them, also when a status query sent before the session was stopped
\* completes after it.
C33_OneTerminalPerSession ==
  /\ [](Terminals(hist) <= 1)
  /\ [][ ~poller.polling => NoTerminal([emitted |-> emitted']) ]_vars

\* the session timed out and the reply to its outstanding query, coming
\* later, made the Idle poller emit succeeded as well
C33_SucceededAfterTimedOut ==
  /\ ~poller.polling
  /\ hist.timedOut = 1 /\ hist.succeeded = 1
  /\ ~hist.live
  /\ Emits([emitted |-> emitted], "connectionSucceeded")

(***************************************************************************)
(* The wizard after a loss of the connection (SpecWizard)                  *)
(***************************************************************************)
\* the connection was lost at step connect while the scan that
\* connectToDevice starts by itself is waiting for the device
LostDuringAutomaticScan ==
  /\ mgr.step = "connect"
  /\ PendingCont("scanWifiNetworks")
  /\ ble.connectionState = "disconnected"
  /\ ~ble.device

\* C34: after an unexpected loss of the connection the wizard ends at
\* welcome: at once when the step is past connect, and, when the loss
\* happens at step connect while connectToDevice waits for its automatic
\* scan, in the task in which that scan settles; it does not come to rest
\* at networks with the transport disconnected.
C34_LossEndsAtWelcome ==
  /\ (LossPossible /\ mgr.step \notin {"welcome", "connect"})
       => LossOutcome.mgr.step = "welcome"
  /\ LostDuringAutomaticScan =>
       \A d \in SettleOutcomes :
         /\ d.mgr.step = "welcome"
         /\ ~(d.mgr.step = "networks" /\ d.ble.connectionState = "disconnected")

\* the automatic scan of a lost connection is about to time out, which
\* leaves the wizard at networks, disconnected, with the scan's error
C34_RestsAtNetworksDisconnected ==
  /\ LostDuringAutomaticScan
  /\ proto.timeoutTimer # 0
  /\ \E d \in SettleOutcomes :
       /\ d.mgr.step = "networks"
       /\ d.ble.connectionState = "disconnected"
       /\ d.proto.pendingResolve = 0
       /\ Has(d.emitted, "provisioningError", "timed out")

(***************************************************************************)
(* The error the store holds after the automatic reset (SpecWizard)        *)
(***************************************************************************)
\* the automatic reset of a lost connection has finished in the task
ResetFinished(d) ==
  /\ Has(d.emitted, "provisioningError", ConnectionLost)
  /\ Has(d.emitted, "provisioningReset", "")

\* C37: when the connection is lost while the step is neither welcome nor
\* connect and the automatic reset has finished, the provisioningError of
\* the store is the connection-lost message.
C37_StoreKeepsConnectionLost ==
  (LossPossible /\ mgr.step \notin {"welcome", "connect"}) =>
    LET d == LossOutcome
    IN ResetFinished(d) => StoreError(NULL, d.emitted) = ConnectionLost

\* the connection is lost on the connecting screen; the reset finishes in
\* the same task and leaves the store without an error
C37_StoreErrorGone ==
  /\ LossPossible /\ mgr.step = "connecting" /\ poller.polling
  /\ ResetFinished(LossOutcome)
  /\ StoreError(NULL, LossOutcome.emitted) = NULL
  /\ LossOutcome.mgr.step = "welcome"

(***************************************************************************)
(* The step from which the wizard reaches success (SpecWizard)             *)
(***************************************************************************)
\* C35: the step becomes success only in a task that begins at the step
\* connecting, whatever the user interface has called and whatever the
\* poller notifies.
C35_SuccessOnlyFromConnecting ==
  [][ (mgr'.step = "success" /\ mgr.step # "success") => mgr.step = "connecting" ]_vars

\* the user has gone back to the list of networks while the poller is still
\* running; the reply to its query says connected and takes the step from
\* networks to success
C35_SuccessFromNetworks ==
  /\ mgr.step = "networks"
  /\ poller.polling
  /\ PendingCont("doPoll")
  /\ \E d \in SettleOutcomes :
       /\ SettledOk(d)
       /\ d.mgr.step = "success"
       /\ Has(d.emitted, "stepChanged", "success")

(***************************************************************************)
(* The disconnect of scanForDevices (SpecWizard)                           *)
(***************************************************************************)
\* C36: the Disconnected notification of the disconnect that scanForDevices
\* asked for, at whatever step it was called, makes the manager emit no
\* connection-lost error and start no reset in the task in which the cancel
\* of the connection settles.
C36_ScanDisconnectIsSilent ==
  \A i \in DOMAIN ble.cancels :
    ble.cancels[i] = "scanForDevices" =>
      /\ ~Has(CancelOutcome(i).emitted, "provisioningError", ConnectionLost)
      /\ Resets(CancelOutcome(i).emitted) = {}

\* scanForDevices was called at the list of networks with the device
\* connected; when its disconnect completes the manager reports a lost
\* connection and resets
C36_ScanFromNetworksResets ==
  /\ mgr.step = "networks"
  /\ ble.cancels = << "scanForDevices" >>
  /\ Has(CancelOutcome(1).emitted, "provisioningError", ConnectionLost)
  /\ Has(CancelOutcome(1).emitted, "reset", "networks")
  /\ Has(CancelOutcome(1).emitted, "provisioningReset", "")

(***************************************************************************)
(* The bookkeeping of the pending command (SpecChannel)                    *)
(***************************************************************************)
SlotFilled(p) == p.pendingResolve # 0 /\ p.pendingReject # 0

SlotEmpty(p) == p.pendingResolve = 0 /\ p.pendingReject = 0

\* C38: between the tasks of the channel the busy flag is true exactly when
\* the callbacks of a pending command are stored and exactly when the command
\* timer is armed (the callbacks and the timer being those of the same
\* command, whose name is stored with them); whenever destroy is called it
\* leaves the flag false, the slot empty and no timer armed.
C38_BusyIffSlotIffTimer ==
  /\ proto.busy <=> SlotFilled(proto)
  /\ ~proto.busy <=> SlotEmpty(proto)
  /\ proto.busy <=> proto.timeoutTimer # 0
  /\ proto.busy <=> proto.pendingCommand # NULL
  /\ proto.busy => /\ proto.pendingResolve = proto.pendingReject
                   /\ proto.timeoutTimer = proto.pendingResolve
  /\ LET d == Drain(DeviceProtocol_destroy(World(0)))
     IN ~d.proto.busy /\ SlotEmpty(d.proto) /\ d.proto.timeoutTimer = 0
  /\ ~proto.subscribed => ~proto.busy /\ SlotEmpty(proto) /\ proto.timeoutTimer = 0

\* a second command is pending after the first was settled by the device's
\* reply, and a destroy now would abandon it
C38_Witness ==
  /\ Len(calls) = 2
  /\ calls[1].outcome = "ok" /\ calls[1].settles = 1
  /\ proto.busy /\ proto.pendingResolve = 2 /\ proto.timeoutTimer = 2
  /\ Drain(DeviceProtocol_destroy(World(0))).calls[2].abandoned

\* the channel was destroyed while a command was pending
C38_Destroyed ==
  /\ ~proto.subscribed
  /\ \E id \in Ids : calls[id].abandoned /\ calls[id].settles = 0
  /\ ~proto.busy /\ proto.timeoutTimer = 0

(***************************************************************************)
(* Every command settles (SpecChannelLive)                                 *)
(***************************************************************************)
\* the command in the slot, if any, is the only one that is neither settled
\* nor abandoned by destroy
OnlyPendingUnsettled ==
  \A id \in Ids :
    (calls[id].settles = 0 /\ ~calls[id].abandoned) => proto.pendingResolve = id

\* C39: a command that sendCommand accepted is resolved or rejected at some
\* later time unless the channel is destroyed, whether or not its write
\* completes and whether or not the device answers: the channel is free
\* again and again, and when it is free every accepted command has been
\* settled (or abandoned by destroy).
C39_AcceptedCommandSettles ==
  /\ []<>(~proto.busy)
  /\ [](OnlyPendingUnsettled /\ (proto.pendingResolve # 0 => proto.busy))

\* a command was rejected by its timer while its write had not completed
\* and the device had sent nothing
C39_Witness ==
  \E id \in Ids :
    /\ calls[id].settles = 1 /\ calls[id].outcome = "timeout"
    /\ \E wr \in writes : wr.id = id
    /\ id \notin inflight
    /\ ~proto.busy /\ proto.subscribed

\* the steps of CommandTimeout are those of CommandTimerFires
C39_TimerStep == [][CommandTimeout <=> CommandTimerFires]_vars

(***************************************************************************)
(* Every polling session ends (SpecPollerLive)                             *)
(***************************************************************************)
\* C40: after a startPolling that starts a session the poller is Idle again
\* at some later time -- through succeeded, failed, the overall timeout or a
\* stop -- also when every status query fails or none completes.
C40_SessionEnds == poller.polling ~> ~poller.polling

\* a session in which the only query failed has been ended by the overall
\* timeout
C40_Witness ==
  /\ ~poller.polling
  /\ hist.timedOut = 1 /\ hist.succeeded = 0 /\ hist.failed = 0
  /\ hist.replies = << >>
  /\ poller.pollError # NULL
  /\ timers = NoTimers

\* a session in which no query completed has been ended by the overall
\* timeout
C40_NothingCompleted ==
  /\ ~poller.polling
  /\ hist.timedOut = 1 /\ hist.replies = << >>
  /\ poller.pollError = NULL
  /\ proto.pendingCommand = "get_status" /\ writes # {}

\* the steps of PollTimeout are those of PollTimerFires
C40_TimerStep == [][PollTimeout <=> PollTimerFires]_vars

====
